---- MODULE Spec2Model ----
(***************************************************************************)
(* Vox: push-to-talk dictation.  The hotkey gate (vox/hotkey.py,           *)
(* HotkeyListener), the pipeline coordinator (vox/app.py, VoxApp) and the  *)
(* capture buffer (vox/recorder.py, AudioRecorder) as a state machine of   *)
(* three kinds of thread: the pynput listener thread that delivers key     *)
(* events one at a time, the per-run worker threads, and the sound-device  *)
(* callback thread.  Every `with self._lock:` block is one atomic step;    *)
(* the statements between two blocks are steps of their own.               *)
(*                                                                         *)
(* The main thread runs VoxApp.start and VoxApp.stop statement by         *)
(* statement, next to the two tasks of start's thread pool.  Texts are     *)
(* sequences of one-character strings, and vox/llm.py's format_text is     *)
(* computed on them as the code computes it.                               *)
(*                                                                         *)
(* Nine specifications share the variables and the actions:                *)
(*   Spec       the whole application with the default configuration:      *)
(*              start, key events -> gate -> coordinator -> worker, stop   *)
(*   GateSpec   HotkeyListener alone: key events, any caller of            *)
(*              set_enabled and callbacks that return or raise             *)
(*   CoordSpec  VoxApp with its two entry points called directly by any    *)
(*              caller (as tests/test_app.py does), one call at a time,    *)
(*              under any configuration                                    *)
(*   FormatSpec LLMFormatter.format_text called with any transcript and    *)
(*              any answer of the model                                    *)
(*   LifeSpec   start alone, under any configuration                       *)
(*   ValidSpec  LLMFormatter._is_valid_formatting called with any input    *)
(*              text and any output text                                   *)
(*   FilterSpec FasterWhisperEngine._validate_transcription called with    *)
(*              any text and any duration                                  *)
(*   RecSpec    AudioRecorder with threads that call start() and stop()    *)
(*              in any order around the sound-device callback              *)
(*   FairSpec   the application after a start() that succeeded, with the   *)
(*              listener thread and the worker threads scheduled fairly    *)
(*                                                                         *)
(* Time is time.monotonic() in ticks of 0.1 s; audio is counted in blocks  *)
(* of 0.25 s.                                                              *)
(***************************************************************************)
EXTENDS Integers, FiniteSets, Sequences, TLC

\* ------------------------------------------------------------- bounds
MaxTime == 8
MaxFrames == 3
MaxWorkers == 2
\* format_text under any caller: fillers and other characters of raw_text,
\* characters the model appends
MaxFillers == 2
MaxBodyLen == 2
MaxPad == 15
\* _is_valid_formatting under any caller: characters after the head of the
\* input text
MaxTextPad == 20
\* _validate_transcription under any caller: characters of the text, and the
\* duration in half seconds
MaxTextLen == 6
MaxDuration == 7
\* the recorder under any caller: threads that call start() and stop()
MaxCallers == 2

\* ------------------------------------------------- program constants
\* VoxApp._PIPELINE_COOLDOWN_SEC = 0.3, in ticks of 0.1 s
PIPELINE_COOLDOWN == 3
\* AudioConfig.min_duration_sec = 0.5, in blocks of 0.25 s
MinDurationFrames == 2

\* LLMConfig.skip_short_max_chars (default 20), scaled
skip_short_max_chars == 3
\* _validate_transcription: duration < 3.0, in half seconds
ShortAudioDuration == 6
\* _validate_transcription: chars_per_sec > 15.0, scaled to 2 characters per
\* second
MaxCharsPerSec == 2

\* AudioRecorder._max_frames = sample_rate * max_duration_sec, scaled
max_frames == MaxFrames

\* the keys pynput can report; ctrl_l stands for every non-trigger key
Keys == {"alt_r", "alt_gr", "ctrl_l"}
\* _KEY_ALIASES["alt_r"], the default trigger
trigger_keys == {"alt_r", "alt_gr"}

Workers == 1..MaxWorkers

\* the threads that call the recorder: the listener thread (start, from
\* _on_key_press) and a worker thread (stop, from _process_pipeline)
Callers == 1..MaxCallers

\* ---------------------------------------------------------------- texts
\* A str is a sequence of characters.  a, b, c stand for the letters of a
\* transcript (unicode categories Lo, Lu, Ll), u and m for the letters that
\* spell fillers, 1 for a character that is neither a letter nor matched by
\* _PUNCT_RE, "." for the punctuation of _PUNCT_RE; "[" and "]" are the two
\* delimiter tags and "<" and ">" the tags <think> and </think>, each taken
\* as one character.
Letters == {"a", "b", "c", "d", "e", "u", "m"}
Whitespace == {" ", "\n"}
\* llm.py _PUNCT_RE: [、。！？.,!?\s\n]
PunctChars == {"."} \cup Whitespace
DELIMITER_START == <<"[">>
DELIMITER_END == <<"]">>
THINK_OPEN == "<"
THINK_CLOSE == ">"
\* the filler lists of app.py and of llm.py (which has one entry more), scaled
app_FILLERS == << <<"u", "m">> >>
llm_FILLERS == << <<"u", "m">>, <<"m", "m">> >>

\* STTConfig.word_replacements, one entry
word_replacements == << << <<"c">>, <<"b">> >> >>

Chars == Letters \cup PunctChars
             \cup {"1", "2", "z", "[", "]", THINK_OPEN, THINK_CLOSE}
\* the model answered without content (message.content is None)
None == <<"None">>

Max(a, b) == IF a >= b THEN a ELSE b
SetMax(S) == CHOOSE x \in S : \A y \in S : y <= x
SetMin(S) == CHOOSE x \in S : \A y \in S : x <= y

\* str.strip()
RECURSIVE lstrip(_)
lstrip(s) ==
    IF s # <<>> /\ Head(s) \in Whitespace THEN lstrip(Tail(s)) ELSE s

RECURSIVE rstrip(_)
rstrip(s) ==
    IF s # <<>> /\ s[Len(s)] \in Whitespace
    THEN rstrip(SubSeq(s, 1, Len(s) - 1))
    ELSE s

strip(s) == rstrip(lstrip(s))

StartsWith(s, pat) ==
    /\ Len(pat) <= Len(s)
    /\ SubSeq(s, 1, Len(pat)) = pat

\* pat in s
RECURSIVE contains(_, _)
contains(s, pat) ==
    IF Len(s) < Len(pat) THEN FALSE
    ELSE StartsWith(s, pat) \/ contains(Tail(s), pat)

\* s.replace(pat, rep) for a non-empty pat
RECURSIVE replace(_, _, _)
replace(s, pat, rep) ==
    IF Len(s) < Len(pat) THEN s
    ELSE IF StartsWith(s, pat)
    THEN rep \o replace(SubSeq(s, Len(pat) + 1, Len(s)), pat, rep)
    ELSE <<Head(s)>> \o replace(Tail(s), pat, rep)

\* _PUNCT_RE.sub("", s)
punct_sub(s) == SelectSeq(s, LAMBDA ch : ch \notin PunctChars)

\* _THINK_RE.sub("", s): every <think>...</think>, shortest match first
RECURSIVE think_sub(_)
think_sub(s) ==
    LET opens == {i \in 1..Len(s) : s[i] = THINK_OPEN}
        i == SetMin(opens)
        closes == {j \in 1..Len(s) : j > i /\ s[j] = THINK_CLOSE}
        j == SetMin(closes)
    IN  IF opens = {} THEN s
        ELSE IF closes = {} THEN s
        ELSE SubSeq(s, 1, i - 1) \o think_sub(SubSeq(s, j + 1, Len(s)))

\* re.sub(r" {2,}", " ", s)
RECURSIVE collapse_spaces(_)
collapse_spaces(s) ==
    IF Len(s) < 2 THEN s
    ELSE IF s[1] = " " /\ s[2] = " " THEN collapse_spaces(Tail(s))
    ELSE <<Head(s)>> \o collapse_spaces(Tail(s))

\* ------------------------------------------- difflib.SequenceMatcher
\* the length of the common run of a from i and b from j
RECURSIVE MatchLen(_, _, _, _, _, _)
MatchLen(a, b, i, j, ahi, bhi) ==
    IF i <= ahi /\ j <= bhi /\ a[i] = b[j]
    THEN 1 + MatchLen(a, b, i + 1, j + 1, ahi, bhi)
    ELSE 0

\* SequenceMatcher.find_longest_match without junk: the longest block, the
\* earliest in a among the longest, the earliest in b among those
find_longest_match(a, b, alo, ahi, blo, bhi) ==
    LET P == (alo..ahi) \X (blo..bhi)
        f == [p \in P |-> MatchLen(a, b, p[1], p[2], ahi, bhi)]
        k == SetMax({f[p] : p \in P} \cup {0})
        i == SetMin({p[1] : p \in {q \in P : f[q] = k}})
        j == SetMin({p[2] : p \in {q \in P : f[q] = k /\ q[1] = i}})
    IN  IF k = 0 THEN <<alo, blo, 0>> ELSE <<i, j, k>>

\* the sum of the sizes of SequenceMatcher.get_matching_blocks()
RECURSIVE matching_size(_, _, _, _, _, _)
matching_size(a, b, alo, ahi, blo, bhi) ==
    IF alo > ahi \/ blo > bhi THEN 0
    ELSE LET m == find_longest_match(a, b, alo, ahi, blo, bhi)
         IN  IF m[3] = 0 THEN 0
             ELSE m[3]
                  + matching_size(a, b, alo, m[1] - 1, blo, m[2] - 1)
                  + matching_size(a, b, m[1] + m[3], ahi, m[2] + m[3], bhi)

\* SequenceMatcher(None, a, b).ratio() >= _SM_THRESHOLD (0.5), ratio() being
\* 2.0 * matches / (len(a) + len(b)), and 1.0 for two empty sequences
ratio_reaches_threshold(a, b) ==
    IF Len(a) + Len(b) = 0 THEN TRUE
    ELSE 4 * matching_size(a, b, 1, Len(a), 1, Len(b)) >= Len(a) + Len(b)

\* ------------------------------------------------ LLMFormatter (llm.py)
\* LLMConfig.output_format, the default
output_format == "single_line"

\* LLMFormatter._strip_delimiters
strip_delimiters(text) ==
    strip(replace(replace(text, DELIMITER_START, <<>>), DELIMITER_END, <<>>))

\* LLMFormatter._normalize_output
normalize_output(text) ==
    IF output_format = "single_line"
    THEN strip(collapse_spaces(replace(text, <<"\n">>, <<" ">>)))
    ELSE text

\* LLMFormatter._strip_known_fillers: the fillers in list order, from entry n
RECURSIVE strip_fillers_from(_, _)
strip_fillers_from(text, n) ==
    IF n > Len(llm_FILLERS) THEN text
    ELSE strip_fillers_from(replace(text, llm_FILLERS[n], <<>>), n + 1)

strip_known_fillers(text) == strip_fillers_from(text, 1)

\* LLMFormatter._extract_content_chars
extract_content_chars(text) ==
    {text[i] : i \in {n \in 1..Len(text) : text[n] \in Letters}}

\* A slip: the ratio is compared with a threshold it never exceeds.
NovelRatioNeverExceedsThreshold(raw_input, llm_output) ==
    LET input_chars == extract_content_chars(raw_input)
        output_chars == extract_content_chars(llm_output)
    IN  IF output_chars = {} THEN FALSE
        ELSE Cardinality(output_chars \ input_chars)
                 > Cardinality(output_chars)

\* LLMFormatter._novel_content_ratio > _NOVEL_THRESHOLD (0.5)
novel_ratio_exceeds_threshold(raw_input, llm_output) ==
    LET input_chars == extract_content_chars(raw_input)
        output_chars == extract_content_chars(llm_output)
    IN  IF output_chars = {} THEN FALSE
        ELSE 2 * Cardinality(output_chars \ input_chars)
                 > Cardinality(output_chars)

\* the echo guard of _is_valid_formatting: max(int(len(norm_in) * 0.3), 5)
echo_limit(norm_in) == Max((3 * Len(norm_in)) \div 10, 5)

\* A slip: an input without content is compared like any other.
IsValidFormattingWithoutEmptyCheck(raw_input, llm_output) ==
    LET norm_in == punct_sub(raw_input)
        norm_out == punct_sub(llm_output)
        stripped_in == punct_sub(strip_known_fillers(raw_input))
    IN  IF ratio_reaches_threshold(norm_in, norm_out)
        THEN ~(Len(norm_out) - Len(norm_in) > echo_limit(norm_in))
        ELSE IF /\ stripped_in # <<>>
                /\ ratio_reaches_threshold(stripped_in, norm_out)
        THEN TRUE
        ELSE ~novel_ratio_exceeds_threshold(raw_input, llm_output)

\* A slip: the echo guard is missing.
IsValidFormattingWithoutEchoGuard(raw_input, llm_output) ==
    LET norm_in == punct_sub(raw_input)
        norm_out == punct_sub(llm_output)
        stripped_in == punct_sub(strip_known_fillers(raw_input))
    IN  IF norm_in = <<>> THEN TRUE
        ELSE IF ratio_reaches_threshold(norm_in, norm_out) THEN TRUE
        ELSE IF /\ stripped_in # <<>>
                /\ ratio_reaches_threshold(stripped_in, norm_out)
        THEN TRUE
        ELSE ~novel_ratio_exceeds_threshold(raw_input, llm_output)

\* A slip: the novel-content check is made for every output, whatever the
\* similarity ratio.
IsValidFormattingAlwaysChecksNovelContent(raw_input, llm_output) ==
    LET norm_in == punct_sub(raw_input)
        norm_out == punct_sub(llm_output)
        stripped_in == punct_sub(strip_known_fillers(raw_input))
    IN  IF norm_in = <<>> THEN TRUE
        ELSE IF novel_ratio_exceeds_threshold(raw_input, llm_output)
        THEN FALSE
        ELSE IF ratio_reaches_threshold(norm_in, norm_out)
        THEN ~(Len(norm_out) - Len(norm_in) > echo_limit(norm_in))
        ELSE TRUE

\* LLMFormatter._is_valid_formatting
is_valid_formatting(raw_input, llm_output) ==
    LET norm_in == punct_sub(raw_input)
        norm_out == punct_sub(llm_output)
        stripped_in == punct_sub(strip_known_fillers(raw_input))
    IN  IF norm_in = <<>> THEN TRUE
        ELSE IF ratio_reaches_threshold(norm_in, norm_out)
        THEN ~(Len(norm_out) - Len(norm_in) > echo_limit(norm_in))
        ELSE IF /\ stripped_in # <<>>
                /\ ratio_reaches_threshold(stripped_in, norm_out)
        THEN TRUE
        ELSE ~novel_ratio_exceeds_threshold(raw_input, llm_output)

\* format_text: len(result) > len(raw_text) * 1.5 + 10
too_long(raw_text, result) == 2 * Len(result) > 3 * Len(raw_text) + 20

\* format_text from the model's answer to the checks: think blocks, strip,
\* delimiters, normalisation
clean_result(content) ==
    normalize_output(strip_delimiters(strip(think_sub(content))))

\* A slip: the length of the result is not checked.
FormatTextWithoutLengthGuard(raw_text, content) ==
    LET result == clean_result(IF content = None THEN <<>> ELSE content)
    IN  IF strip(raw_text) = <<>> THEN <<>>
        ELSE IF ~is_valid_formatting(raw_text, result) THEN strip(raw_text)
        ELSE result

\* LLMFormatter.format_text, content being what the model answered
\* (None is the empty text: `content or ""`)
format_text(raw_text, content) ==
    LET result == clean_result(IF content = None THEN <<>> ELSE content)
    IN  IF strip(raw_text) = <<>> THEN <<>>
        ELSE IF ~is_valid_formatting(raw_text, result) THEN strip(raw_text)
        ELSE IF too_long(raw_text, result) THEN strip(raw_text)
        ELSE result

\* -------------------------- FasterWhisperEngine (stt/faster_whisper_engine.py)
\* _HALLUCINATION_PATTERNS, scaled to two phrases
HALLUCINATION_PATTERNS == << <<"b", "b", "a">>, <<"a", "b", "b">> >>

\* _SIMPLIFIED_CHINESE_CHARS, scaled to one character
SIMPLIFIED_CHINESE_CHARS == {"z"}

\* FasterWhisperEngine._contains_simplified_chinese
contains_simplified_chinese(text) ==
    \E i \in 1..Len(text) : text[i] \in SIMPLIFIED_CHINESE_CHARS

\* any(pattern.search(text) for pattern in _HALLUCINATION_PATTERNS)
hallucination_search(text) ==
    \E n \in 1..Len(HALLUCINATION_PATTERNS) :
        contains(text, HALLUCINATION_PATTERNS[n])

\* _REPETITION_RE.search(text), the pattern being (.{2,}?)\1{2,}: two or more
\* characters, none of them a line break (`.` without re.DOTALL), followed by
\* two more copies of themselves
REPETITION_RE_search(text) ==
    \E i \in 1..Len(text), n \in 2..Len(text) :
        /\ i + 3 * n - 1 <= Len(text)
        /\ \A j \in i..(i + n - 1) : text[j] # "\n"
        /\ \A j \in i..(i + 2 * n - 1) : text[j + n] = text[j]

\* duration < 3.0 and len(text) / duration > 15.0, duration in half seconds
suspicious_ratio(text, duration) ==
    /\ duration < ShortAudioDuration
    /\ 2 * Len(text) > MaxCharsPerSec * duration

\* A slip: the repetition check is missing.
ValidateTranscriptionWithoutRepetitionCheck(text, duration) ==
    IF text = <<>> THEN <<>>
    ELSE IF contains_simplified_chinese(text) THEN <<>>
    ELSE IF duration > 0 /\ suspicious_ratio(text, duration) THEN <<>>
    ELSE IF hallucination_search(text) THEN <<>>
    ELSE text

\* FasterWhisperEngine._validate_transcription
validate_transcription(text, duration) ==
    IF text = <<>> THEN <<>>
    ELSE IF contains_simplified_chinese(text) THEN <<>>
    ELSE IF duration > 0 /\ suspicious_ratio(text, duration) THEN <<>>
    ELSE IF hallucination_search(text) THEN <<>>
    ELSE IF REPETITION_RE_search(text) THEN <<>>
    ELSE text

VARIABLES
    enabled,            \* HotkeyListener._enabled
    is_pressed,         \* HotkeyListener._is_pressed
    last_cb,            \* history: the last callback the gate invoked
    gres,               \* history: what the gate did with the last event
    lpc,                \* listener thread: where it is
    key,                \* listener thread: the key of the event in hand
    arrived_disabled,   \* history: the gate was disabled when it arrived
    processing,         \* VoxApp._processing
    recording_active,   \* VoxApp._recording_active
    last_pipeline_end,  \* VoxApp._last_pipeline_end
    worker,             \* VoxApp._worker (0 is None)
    lres,               \* history: how the last coordinator entry ended
    is_recording,       \* AudioRecorder._is_recording
    frame_count,        \* AudioRecorder._frame_count (= blocks in _frames)
    wpc,                \* worker threads: where each is
    wexc,               \* worker threads: an exception is propagating
    wres,               \* worker threads: how the run ended
    wenables,           \* history: set_enabled(True) calls of the run
    waudio,             \* worker threads: len(audio), in blocks
    wtranscript,        \* worker threads: what transcribe returned
    wraw,               \* worker threads: raw_text
    wfmt,               \* worker threads: formatted_text
    wllm,               \* history: what became of the cleanup stage
    wcalls,             \* history: the collaborators the run has called
    winserted,          \* history: the text handed to the inserter
    now,                \* time.monotonic()
    skip_short,         \* config.llm.skip_short
    llm_enabled,        \* llm.enabled as the configuration file gives it
    cb_raised,          \* history: the last callback of the gate raised
    media_calls,        \* history: the calls VoxApp has made to a MediaController
    f_pc,               \* FormatSpec: format_text not called, returned, raised
    f_raw,              \* FormatSpec: the raw_text of the call
    f_content,          \* FormatSpec: what the model answered
    f_result,           \* FormatSpec: what format_text returned
    f_valid,            \* ValidSpec: what _is_valid_formatting returned
    f_duration,         \* FilterSpec: the duration of the call, in half seconds
    f_audio,            \* RecSpec: the blocks the last stop() returned
    f_last,             \* RecSpec: the last call of the recorder that returned
    f_calls,            \* RecSpec: the call each caller thread is inside
    mpc,                \* main thread: where it is in start() and stop()
    stt_task,           \* pool thread running _load_stt
    llm_task,           \* pool thread running _warmup_llm
    mjoin,              \* main thread: the local `worker` of stop() (0: None)
    stream,             \* AudioRecorder._stream: None before open() ("none"),
                        \* started ("open"), made but not started
                        \* ("unstarted"), None after an open() that could
                        \* not make it ("failed"), None after close()
    listener_running    \* HotkeyListener._listener is delivering events

gateVars == <<enabled, is_pressed>>
gateHist == <<last_cb, gres, cb_raised>>
eventVars == <<key, arrived_disabled>>
listenerVars == <<lpc, key, arrived_disabled>>
appVars == <<processing, recording_active, last_pipeline_end, worker>>
recVars == <<is_recording, frame_count>>
runVars == <<waudio, wtranscript, wraw, wfmt, wllm, wcalls, winserted>>
workerVars == <<wpc, wexc, wres, wenables, runVars>>
cfgVars == <<skip_short, llm_enabled>>
mediaVars == <<media_calls>>
recCallVars == <<f_audio, f_last, f_calls>>
fnVars == <<f_pc, f_raw, f_content, f_result, f_valid, f_duration,
            recCallVars>>
mainVars == <<mpc, stt_task, llm_task, mjoin, stream, listener_running>>
vars == <<enabled, is_pressed, gateHist, lpc, key, arrived_disabled,
          processing, recording_active, last_pipeline_end, worker, lres,
          is_recording, frame_count, wpc, wexc, wres, wenables, runVars, now,
          cfgVars, mediaVars, fnVars, mainVars>>

\* a worker thread is inside _process_pipeline
RunningPcs == {"stop", "stt", "llm", "insert", "except", "finally", "enable"}
\* ... and has not yet executed the lock block of its finally clause
BodyPcs == {"stop", "stt", "llm", "insert", "except", "finally"}

StreamStates == {"none", "open", "unstarted", "failed", "closed"}

\* the main thread is inside start()
StartPcs == {"submit_llm", "wait_stt", "wait_llm", "pool_exit", "open",
             "hotkey_start"}
\* the main thread is inside stop()
StopPcs == {"stop_hotkey", "stop_worker", "stop_join", "stop_close"}

TypeOK ==
    /\ enabled \in BOOLEAN /\ is_pressed \in BOOLEAN
    /\ last_cb \in {"none", "press", "release"}
    /\ cb_raised \in BOOLEAN
    /\ gres \in {"none", "down_other", "down_disabled", "down_repeat",
                 "down_fired", "up_other", "up_ignored", "up_fired"}
    /\ lpc \in {"idle", "h_down", "h_up", "on_press", "rec_start",
                "on_release", "disable", "launch"}
    /\ key \in Keys \cup {"none"}
    /\ arrived_disabled \in BOOLEAN
    /\ processing \in BOOLEAN /\ recording_active \in BOOLEAN
    /\ last_pipeline_end \in 0..MaxTime
    /\ worker \in 0..MaxWorkers
    /\ lres \in {"none", "press_busy", "press_cooldown", "press_ok",
                 "rel_nosession", "rel_busy", "rel_started"}
    /\ is_recording \in BOOLEAN /\ frame_count \in 0..max_frames
    /\ wpc \in [Workers -> RunningPcs \cup {"none", "done"}]
    /\ wexc \in [Workers -> BOOLEAN]
    /\ wres \in [Workers -> {"none", "no_audio", "too_short", "blank",
                             "inserted", "error"}]
    /\ wenables \in [Workers -> 0..2]
    /\ waudio \in [Workers -> 0..max_frames]
    /\ \A r \in Workers :
         /\ wtranscript[r] \in Seq(Chars) \cup {None}
         /\ wraw[r] \in Seq(Chars) /\ wfmt[r] \in Seq(Chars)
         /\ winserted[r] \in Seq(Chars)
    /\ wllm \in [Workers -> {"none", "skipped", "returned", "raised"}]
    /\ wcalls \in [Workers -> SUBSET {"transcribe", "format_text", "insert"}]
    /\ now \in 0..MaxTime
    /\ skip_short \in BOOLEAN /\ llm_enabled \in BOOLEAN
    /\ media_calls \subseteq {"pause_if_playing", "resume_if_we_paused"}
    /\ f_pc \in {"none", "idle", "returned", "raised", "validate", "validated",
                "filter", "filtered", "rec"}
    /\ f_audio \in 0..max_frames
    /\ f_last \in {"none", "start", "stop"}
    /\ f_calls \in [Callers -> {"none", "start", "stop"}]
    /\ f_duration \in 0..MaxDuration
    /\ f_valid \in {"none", "valid", "invalid"}
    /\ f_raw \in Seq(Chars) /\ f_result \in Seq(Chars)
    /\ f_content \in Seq(Chars) \cup {None}
    /\ mpc \in StartPcs \cup StopPcs \cup {"new", "ready", "failed", "stopped"}
    /\ stt_task \in {"none", "running", "loaded", "failed"}
    /\ llm_task \in {"none", "running", "warmed", "swallowed", "raised"}
    /\ mjoin \in 0..MaxWorkers
    /\ stream \in StreamStates
    /\ listener_running \in BOOLEAN

\* HotkeyListener.__init__, VoxApp.__init__, AudioRecorder.__init__
Constructed ==
    /\ enabled = TRUE /\ is_pressed = FALSE
    /\ last_cb = "none" /\ gres = "none" /\ cb_raised = FALSE
    /\ lpc = "idle" /\ key = "none" /\ arrived_disabled = FALSE
    /\ processing = FALSE /\ recording_active = FALSE
    /\ last_pipeline_end = 0 /\ worker = 0
    /\ lres = "none"
    /\ is_recording = FALSE /\ frame_count = 0
    /\ wpc = [r \in Workers |-> "none"]
    /\ wexc = [r \in Workers |-> FALSE]
    /\ wres = [r \in Workers |-> "none"]
    /\ wenables = [r \in Workers |-> 0]
    /\ waudio = [r \in Workers |-> 0]
    /\ wtranscript = [r \in Workers |-> None]
    /\ wraw = [r \in Workers |-> <<>>]
    /\ wfmt = [r \in Workers |-> <<>>]
    /\ wllm = [r \in Workers |-> "none"]
    /\ wcalls = [r \in Workers |-> {}]
    /\ winserted = [r \in Workers |-> <<>>]
    /\ now = 0
    /\ mpc = "new" /\ stt_task = "none" /\ llm_task = "none" /\ mjoin = 0
    /\ stream = "none" /\ listener_running = FALSE
    /\ media_calls = {}

\* no caller inside the recorder
NoRecorderCall ==
    /\ f_audio = 0 /\ f_last = "none" /\ f_calls = [c \in Callers |-> "none"]

\* no call of format_text under way
NoFormatCall ==
    /\ f_pc = "none" /\ f_raw = <<>> /\ f_content = <<>> /\ f_result = <<>>
    /\ f_valid = "none" /\ f_duration = 0
    /\ NoRecorderCall

\* the application constructed from the default configuration
Init ==
    /\ Constructed
    /\ skip_short = TRUE /\ llm_enabled = TRUE
    /\ NoFormatCall

\* the application constructed from any configuration
ConfigInit ==
    /\ Constructed
    /\ skip_short \in BOOLEAN /\ llm_enabled \in BOOLEAN
    /\ NoFormatCall

\* ------------------------------------------------------------ the clock
Tick ==
    /\ now < MaxTime
    /\ now' = now + 1
    /\ UNCHANGED <<gateVars, gateHist, listenerVars, appVars, lres, recVars,
                   workerVars, cfgVars, mediaVars, fnVars, mainVars>>

\* ------------------------------------------------- the gate (hotkey.py)
\* HotkeyListener.set_enabled
set_enabled(b) ==
    /\ enabled' = b
    /\ UNCHANGED is_pressed

\* pynput's listener thread hands the next key-down to _handle_press
KeyDownEvent(k) ==
    /\ lpc = "idle"
    /\ lpc' = "h_down" /\ key' = k /\ arrived_disabled' = ~enabled
    /\ UNCHANGED <<gateVars, gateHist, appVars, lres, recVars, workerVars, now,
                   cfgVars, mediaVars, fnVars, mainVars>>

\* pynput's listener thread hands the next key-up to _handle_release
KeyUpEvent(k) ==
    /\ lpc = "idle"
    /\ lpc' = "h_up" /\ key' = k /\ arrived_disabled' = ~enabled
    /\ UNCHANGED <<gateVars, gateHist, appVars, lres, recVars, workerVars, now,
                   cfgVars, mediaVars, fnVars, mainVars>>

\* A slip: the key-repeat guard (`or self._is_pressed`) left out.
HandlePressNoRepeatGuard ==
    /\ lpc = "h_down"
    /\ key' = "none" /\ arrived_disabled' = FALSE
    /\ IF key \notin trigger_keys
       THEN /\ lpc' = "idle" /\ gres' = "down_other"
            /\ UNCHANGED <<is_pressed, last_cb, cb_raised>>
       ELSE IF ~enabled
       THEN /\ lpc' = "idle" /\ gres' = "down_disabled"
            /\ UNCHANGED <<is_pressed, last_cb, cb_raised>>
       ELSE /\ is_pressed' = TRUE
            /\ lpc' = "on_press" /\ last_cb' = "press" /\ gres' = "down_fired"
            /\ cb_raised' = FALSE
    /\ UNCHANGED <<enabled, appVars, lres, recVars, workerVars, now, cfgVars,
                   mediaVars, fnVars, mainVars>>

\* HotkeyListener._handle_press up to the call of self._on_press
HandlePress ==
    /\ lpc = "h_down"
    /\ key' = "none" /\ arrived_disabled' = FALSE
    /\ IF key \notin trigger_keys
       THEN /\ lpc' = "idle" /\ gres' = "down_other"
            /\ UNCHANGED <<is_pressed, last_cb, cb_raised>>
       ELSE IF ~enabled \/ is_pressed
       THEN /\ lpc' = "idle"
            /\ gres' = IF is_pressed THEN "down_repeat" ELSE "down_disabled"
            /\ UNCHANGED <<is_pressed, last_cb, cb_raised>>
       ELSE /\ is_pressed' = TRUE
            /\ lpc' = "on_press" /\ last_cb' = "press" /\ gres' = "down_fired"
            /\ cb_raised' = FALSE
    /\ UNCHANGED <<enabled, appVars, lres, recVars, workerVars, now, cfgVars,
                   mediaVars, fnVars, mainVars>>

\* HotkeyListener._handle_release up to the call of self._on_release
HandleRelease ==
    /\ lpc = "h_up"
    /\ key' = "none" /\ arrived_disabled' = FALSE
    /\ IF key \notin trigger_keys
       THEN /\ lpc' = "idle" /\ gres' = "up_other"
            /\ UNCHANGED <<is_pressed, last_cb, cb_raised>>
       ELSE IF ~is_pressed
       THEN /\ lpc' = "idle" /\ gres' = "up_ignored"
            /\ UNCHANGED <<is_pressed, last_cb, cb_raised>>
       ELSE /\ is_pressed' = FALSE
            /\ lpc' = "on_release" /\ last_cb' = "release" /\ gres' = "up_fired"
            /\ cb_raised' = FALSE
    /\ UNCHANGED <<enabled, appVars, lres, recVars, workerVars, now, cfgVars,
                   mediaVars, fnVars, mainVars>>

\* A slip: the gate undoes its transition when the callback raises.
CallbackRaisesUndoesTransition ==
    /\ lpc \in {"on_press", "on_release"}
    /\ lpc' = "idle"
    /\ \E raises \in BOOLEAN :
         /\ cb_raised' = raises
         /\ is_pressed' = IF raises THEN ~is_pressed ELSE is_pressed
    /\ UNCHANGED <<eventVars, enabled, last_cb, gres, appVars, lres, recVars,
                   workerVars, now, cfgVars, mediaVars, fnVars, mainVars>>

\* GateSpec: the callback handed to the constructor returns, or raises and
\* is caught by the try/except around the call; either way _handle_press or
\* _handle_release returns to the listener thread
CallbackReturns ==
    /\ lpc \in {"on_press", "on_release"}
    /\ lpc' = "idle"
    /\ \E raises \in BOOLEAN : cb_raised' = raises
    /\ UNCHANGED <<eventVars, gateVars, last_cb, gres, appVars, lres, recVars,
                   workerVars, now, cfgVars, mediaVars, fnVars, mainVars>>

\* A slip: the gate calls its callbacks inside its lock block, so that a
\* call of set_enabled waits until the callback has returned.
SetEnabledCallWaitsForCallback(b) ==
    /\ lpc \notin {"on_press", "on_release"}
    /\ set_enabled(b)
    /\ UNCHANGED <<gateHist, listenerVars, appVars, lres, recVars, workerVars,
                   now, cfgVars, mediaVars, fnVars, mainVars>>

\* GateSpec: any thread calls set_enabled
SetEnabledCall(b) ==
    /\ set_enabled(b)
    /\ UNCHANGED <<gateHist, listenerVars, appVars, lres, recVars, workerVars,
                   now, cfgVars, mediaVars, fnVars, mainVars>>

GateNext ==
    \/ \E k \in Keys : KeyDownEvent(k)
    \/ \E k \in Keys : KeyUpEvent(k)
    \/ HandlePress
    \/ HandleRelease
    \/ CallbackReturns
    \/ \E b \in BOOLEAN : SetEnabledCall(b)

GateSpec == Init /\ [][GateNext]_vars

\* ------------------------------------------------------- collaborators
\* what self._stt.transcribe may return: nothing, blanks, a short text, a
\* short text with a filler, a long text with a word of the table
Transcripts ==
    {<<>>, <<" ">>, <<"a", "b", "a">>, <<"u", "m", "a">>,
     <<"a", "c", "a", "b">>}

\* what the cleanup model may answer to raw_text: nothing, the text
\* punctuated, the text without its fillers, another text, punctuation
ModelAnswers(raw_text) ==
    {None, raw_text \o <<".">>, strip_known_fillers(raw_text),
     <<"c", "c", "c", "c">>, <<".">>}

\* ------------------------------------------ the capture buffer (recorder.py)
\* A slip: start() always takes a fresh buffer.
RecorderStartAlwaysResets ==
    is_recording' = TRUE /\ frame_count' = 0

\* AudioRecorder.start: idempotent while recording, else a fresh buffer
recorder_start ==
    IF is_recording
    THEN UNCHANGED recVars
    ELSE is_recording' = TRUE /\ frame_count' = 0

\* AudioRecorder._audio_callback, on the sound-device thread
AudioCallback ==
    /\ is_recording
    /\ IF frame_count >= max_frames
       THEN is_recording' = FALSE /\ UNCHANGED frame_count
       ELSE frame_count' = frame_count + 1 /\ UNCHANGED is_recording
    /\ UNCHANGED <<gateVars, gateHist, listenerVars, appVars, lres, workerVars,
                   now, cfgVars, mediaVars, fnVars, mainVars>>

\* --------------------------------- the coordinator's entry points (app.py)
\* A slip: `<=` for `<` in the cooldown test.
OnKeyPressCooldownInclusive ==
    /\ lpc = "on_press"
    /\ IF processing
       THEN /\ lpc' = "idle" /\ lres' = "press_busy"
            /\ UNCHANGED recording_active
       ELSE IF now <= last_pipeline_end + PIPELINE_COOLDOWN
       THEN /\ lpc' = "idle" /\ lres' = "press_cooldown"
            /\ UNCHANGED recording_active
       ELSE /\ recording_active' = TRUE
            /\ lpc' = "rec_start" /\ lres' = "press_ok"
    /\ UNCHANGED <<eventVars, gateVars, gateHist, processing,
                   last_pipeline_end, worker, recVars, workerVars, now,
                   cfgVars, mediaVars, fnVars, mainVars>>

\* A slip: the cooldown test is missing.
OnKeyPressWithoutCooldown ==
    /\ lpc = "on_press"
    /\ IF processing
       THEN /\ lpc' = "idle" /\ lres' = "press_busy"
            /\ UNCHANGED recording_active
       ELSE /\ recording_active' = TRUE
            /\ lpc' = "rec_start" /\ lres' = "press_ok"
    /\ UNCHANGED <<eventVars, gateVars, gateHist, processing,
                   last_pipeline_end, worker, recVars, workerVars, now,
                   cfgVars, mediaVars, fnVars, mainVars>>

\* A slip: recorder.start() is called inside the lock block of the press
\* handler.
OnKeyPressStartsRecorderUnderLock ==
    /\ lpc = "on_press"
    /\ lpc' = "idle"
    /\ IF processing
       THEN /\ lres' = "press_busy"
            /\ UNCHANGED <<recording_active, recVars>>
       ELSE IF now < last_pipeline_end + PIPELINE_COOLDOWN
       THEN /\ lres' = "press_cooldown"
            /\ UNCHANGED <<recording_active, recVars>>
       ELSE /\ recording_active' = TRUE
            /\ lres' = "press_ok"
            /\ recorder_start
    /\ UNCHANGED <<eventVars, gateVars, gateHist, processing,
                   last_pipeline_end, worker, workerVars, now,
                   cfgVars, mediaVars, fnVars, mainVars>>

\* A slip: the active-run test of the press handler is missing.
OnKeyPressWithoutActiveRunTest ==
    /\ lpc = "on_press"
    /\ IF now < last_pipeline_end + PIPELINE_COOLDOWN
       THEN /\ lpc' = "idle" /\ lres' = "press_cooldown"
            /\ UNCHANGED recording_active
       ELSE /\ recording_active' = TRUE
            /\ lpc' = "rec_start" /\ lres' = "press_ok"
    /\ UNCHANGED <<eventVars, gateVars, gateHist, processing,
                   last_pipeline_end, worker, recVars, workerVars, now,
                   cfgVars, mediaVars, fnVars, mainVars>>

\* VoxApp._on_key_press: the block under self._lock
OnKeyPress ==
    /\ lpc = "on_press"
    /\ IF processing
       THEN /\ lpc' = "idle" /\ lres' = "press_busy"
            /\ UNCHANGED recording_active
       ELSE IF now < last_pipeline_end + PIPELINE_COOLDOWN
       THEN /\ lpc' = "idle" /\ lres' = "press_cooldown"
            /\ UNCHANGED recording_active
       ELSE /\ recording_active' = TRUE
            /\ lpc' = "rec_start" /\ lres' = "press_ok"
    /\ UNCHANGED <<eventVars, gateVars, gateHist, processing,
                   last_pipeline_end, worker, recVars, workerVars, now,
                   cfgVars, mediaVars, fnVars, mainVars>>

\* VoxApp._on_key_press: self._recorder.start(), after the lock is released
PressRecorderStart ==
    /\ lpc = "rec_start"
    /\ recorder_start
    /\ lpc' = "idle"
    /\ UNCHANGED <<eventVars, gateVars, gateHist, appVars, lres, workerVars,
                   now, cfgVars, mediaVars, fnVars, mainVars>>

\* A slip: the capture-session test (`if not self._recording_active`) left out.
OnKeyReleaseNoSessionGuard ==
    /\ lpc = "on_release"
    /\ recording_active' = FALSE
    /\ IF processing
       THEN /\ lpc' = "idle" /\ lres' = "rel_busy"
            /\ UNCHANGED processing
       ELSE /\ processing' = TRUE
            /\ lpc' = "disable" /\ lres' = "rel_started"
    /\ UNCHANGED <<eventVars, gateVars, gateHist, last_pipeline_end, worker,
                   recVars, workerVars, now, cfgVars, mediaVars, fnVars,
                   mainVars>>

\* A slip: the flag is tested but never taken (`self._processing = True` lost).
OnKeyReleaseFlagNotTaken ==
    /\ lpc = "on_release"
    /\ IF ~recording_active
       THEN /\ lpc' = "idle" /\ lres' = "rel_nosession"
            /\ UNCHANGED <<recording_active, processing>>
       ELSE IF processing
       THEN /\ recording_active' = FALSE
            /\ lpc' = "idle" /\ lres' = "rel_busy"
            /\ UNCHANGED processing
       ELSE /\ recording_active' = FALSE
            /\ UNCHANGED processing
            /\ lpc' = "disable" /\ lres' = "rel_started"
    /\ UNCHANGED <<eventVars, gateVars, gateHist, last_pipeline_end, worker,
                   recVars, workerVars, now, cfgVars, mediaVars, fnVars,
                   mainVars>>

\* The handler as it was before the two guards: every release starts a run.
OnKeyReleaseUnguarded ==
    /\ lpc = "on_release"
    /\ recording_active' = FALSE
    /\ processing' = TRUE
    /\ lpc' = "disable" /\ lres' = "rel_started"
    /\ UNCHANGED <<eventVars, gateVars, gateHist, last_pipeline_end, worker,
                   recVars, workerVars, now, cfgVars, mediaVars, fnVars,
                   mainVars>>

\* VoxApp._on_key_release: the first block under self._lock
OnKeyRelease ==
    /\ lpc = "on_release"
    /\ IF ~recording_active
       THEN /\ lpc' = "idle" /\ lres' = "rel_nosession"
            /\ UNCHANGED <<recording_active, processing>>
       ELSE IF processing
       THEN /\ recording_active' = FALSE
            /\ lpc' = "idle" /\ lres' = "rel_busy"
            /\ UNCHANGED processing
       ELSE /\ recording_active' = FALSE
            /\ processing' = TRUE
            /\ lpc' = "disable" /\ lres' = "rel_started"
    /\ UNCHANGED <<eventVars, gateVars, gateHist, last_pipeline_end, worker,
                   recVars, workerVars, now, cfgVars, mediaVars, fnVars,
                   mainVars>>

\* A slip: the gate is left enabled when the run is handed to the worker.
ReleaseDisableGateOmitted ==
    /\ lpc = "disable"
    /\ lpc' = "launch"
    /\ UNCHANGED <<eventVars, gateVars, gateHist, appVars, lres, recVars,
                   workerVars, now, cfgVars, mediaVars, fnVars, mainVars>>

\* VoxApp._on_key_release: self._hotkey.set_enabled(False)
ReleaseDisableGate ==
    /\ lpc = "disable"
    /\ set_enabled(FALSE)
    /\ lpc' = "launch"
    /\ UNCHANGED <<eventVars, gateHist, appVars, lres, recVars, workerVars,
                   now, cfgVars, mediaVars, fnVars, mainVars>>

\* the locals of a run that is not in its body
NoLocals(r) ==
    /\ waudio' = [waudio EXCEPT ![r] = 0]
    /\ wtranscript' = [wtranscript EXCEPT ![r] = None]
    /\ wraw' = [wraw EXCEPT ![r] = <<>>]
    /\ wfmt' = [wfmt EXCEPT ![r] = <<>>]
    /\ wllm' = [wllm EXCEPT ![r] = "none"]
    /\ wcalls' = [wcalls EXCEPT ![r] = {}]
    /\ winserted' = [winserted EXCEPT ![r] = <<>>]

\* a thread object not in use: never started, or finished
FreeWorkers == {r \in Workers : wpc[r] \in {"none", "done"}}

\* A slip: the release handler stops the capture itself and waits for the
\* device before it starts the worker.
ReleaseLaunchWorkerAfterStop ==
    /\ lpc = "launch"
    /\ FreeWorkers # {}
    /\ is_recording' = FALSE /\ frame_count' = 0
    /\ LET r == CHOOSE x \in FreeWorkers : \A y \in FreeWorkers : x <= y
       IN /\ worker' = r
          /\ wpc' = [wpc EXCEPT ![r] = "stt"]
          /\ wexc' = [wexc EXCEPT ![r] = FALSE]
          /\ wres' = [wres EXCEPT ![r] = "none"]
          /\ wenables' = [wenables EXCEPT ![r] = 0]
          /\ waudio' = [waudio EXCEPT ![r] = frame_count]
          /\ wtranscript' = [wtranscript EXCEPT ![r] = None]
          /\ wraw' = [wraw EXCEPT ![r] = <<>>]
          /\ wfmt' = [wfmt EXCEPT ![r] = <<>>]
          /\ wllm' = [wllm EXCEPT ![r] = "none"]
          /\ wcalls' = [wcalls EXCEPT ![r] = {}]
          /\ winserted' = [winserted EXCEPT ![r] = <<>>]
    /\ lpc' = "idle"
    /\ UNCHANGED <<eventVars, gateVars, gateHist, processing, recording_active,
                   last_pipeline_end, lres, now, cfgVars, mediaVars,
                   fnVars, mainVars>>

\* VoxApp._on_key_release: the Thread is made, kept in self._worker under
\* the lock, and started
ReleaseLaunchWorker ==
    /\ lpc = "launch"
    /\ FreeWorkers # {}
    /\ LET r == CHOOSE x \in FreeWorkers : \A y \in FreeWorkers : x <= y
       IN /\ worker' = r
          /\ wpc' = [wpc EXCEPT ![r] = "stop"]
          /\ wexc' = [wexc EXCEPT ![r] = FALSE]
          /\ wres' = [wres EXCEPT ![r] = "none"]
          /\ wenables' = [wenables EXCEPT ![r] = 0]
          /\ NoLocals(r)
    /\ lpc' = "idle"
    /\ UNCHANGED <<eventVars, gateVars, gateHist, processing, recording_active,
                   last_pipeline_end, lres, recVars, now, cfgVars, mediaVars,
                   fnVars, mainVars>>

\* ----------------------------- the run: VoxApp._process_pipeline (app.py)
\* AudioRecorder.stop: the block under the recorder's lock
recorder_stop ==
    /\ is_recording' = FALSE
    /\ frame_count' = 0

\* A slip: the fillers are not looked for.
ShouldSkipLlmIgnoringFillers(text) ==
    IF ~skip_short THEN FALSE
    ELSE IF Len(text) > skip_short_max_chars THEN FALSE
    ELSE TRUE

\* VoxApp._should_skip_llm
should_skip_llm(text) ==
    IF ~skip_short THEN FALSE
    ELSE IF Len(text) > skip_short_max_chars THEN FALSE
    ELSE ~(\E n \in 1..Len(app_FILLERS) : contains(text, app_FILLERS[n]))

\* VoxApp._apply_word_replacements: the entries of the table in order, from
\* entry n
RECURSIVE replace_words_from(_, _)
replace_words_from(text, n) ==
    IF n > Len(word_replacements) THEN text
    ELSE replace_words_from(
             replace(text, word_replacements[n][1], word_replacements[n][2]),
             n + 1)

apply_word_replacements(text) == replace_words_from(text, 1)

\* A slip: cleanup at the end of the body, not in a finally clause, so the
\* early return on an empty capture leaves the function without it.
ProcessStopReturnSkipsCleanup(r) ==
    /\ wpc[r] = "stop"
    /\ recorder_stop
    /\ \E raises \in BOOLEAN :
         IF raises
         THEN /\ wpc' = [wpc EXCEPT ![r] = "except"]
              /\ wexc' = [wexc EXCEPT ![r] = TRUE]
              /\ UNCHANGED <<wres, waudio>>
         ELSE /\ waudio' = [waudio EXCEPT ![r] = frame_count]
              /\ IF frame_count = 0
                 THEN /\ wpc' = [wpc EXCEPT ![r] = "done"]
                      /\ wres' = [wres EXCEPT ![r] = "no_audio"]
                      /\ UNCHANGED wexc
                 ELSE IF frame_count < MinDurationFrames
                 THEN /\ wpc' = [wpc EXCEPT ![r] = "finally"]
                      /\ wres' = [wres EXCEPT ![r] = "too_short"]
                      /\ UNCHANGED wexc
                 ELSE /\ wpc' = [wpc EXCEPT ![r] = "stt"]
                      /\ UNCHANGED <<wexc, wres>>
    /\ UNCHANGED <<gateVars, gateHist, listenerVars, appVars, lres, wenables,
                   wtranscript, wraw, wfmt, wllm, wcalls, winserted, now,
                   cfgVars, mediaVars, fnVars, mainVars>>

\* A slip: the minimum-duration check left out.
ProcessStopWithoutMinimumDuration(r) ==
    /\ wpc[r] = "stop"
    /\ recorder_stop
    /\ \E raises \in BOOLEAN :
         IF raises
         THEN /\ wpc' = [wpc EXCEPT ![r] = "except"]
              /\ wexc' = [wexc EXCEPT ![r] = TRUE]
              /\ UNCHANGED <<wres, waudio>>
         ELSE /\ waudio' = [waudio EXCEPT ![r] = frame_count]
              /\ IF frame_count = 0
                 THEN /\ wpc' = [wpc EXCEPT ![r] = "finally"]
                      /\ wres' = [wres EXCEPT ![r] = "no_audio"]
                      /\ UNCHANGED wexc
                 ELSE /\ wpc' = [wpc EXCEPT ![r] = "stt"]
                      /\ UNCHANGED <<wexc, wres>>
    /\ UNCHANGED <<gateVars, gateHist, listenerVars, appVars, lres, wenables,
                   wtranscript, wraw, wfmt, wllm, wcalls, winserted, now,
                   cfgVars, mediaVars, fnVars, mainVars>>

\* step 1 and 1b: recorder.stop(), the empty-capture and minimum-duration
\* returns; an exception of stop() goes to the except clause
ProcessStop(r) ==
    /\ wpc[r] = "stop"
    /\ recorder_stop
    /\ \E raises \in BOOLEAN :
         IF raises
         THEN /\ wpc' = [wpc EXCEPT ![r] = "except"]
              /\ wexc' = [wexc EXCEPT ![r] = TRUE]
              /\ UNCHANGED <<wres, waudio>>
         ELSE /\ waudio' = [waudio EXCEPT ![r] = frame_count]
              /\ IF frame_count = 0
                 THEN /\ wpc' = [wpc EXCEPT ![r] = "finally"]
                      /\ wres' = [wres EXCEPT ![r] = "no_audio"]
                      /\ UNCHANGED wexc
                 ELSE IF frame_count < MinDurationFrames
                 THEN /\ wpc' = [wpc EXCEPT ![r] = "finally"]
                      /\ wres' = [wres EXCEPT ![r] = "too_short"]
                      /\ UNCHANGED wexc
                 ELSE /\ wpc' = [wpc EXCEPT ![r] = "stt"]
                      /\ UNCHANGED <<wexc, wres>>
    /\ UNCHANGED <<gateVars, gateHist, listenerVars, appVars, lres, wenables,
                   wtranscript, wraw, wfmt, wllm, wcalls, winserted, now,
                   cfgVars, mediaVars, fnVars, mainVars>>

\* A slip: the transcript is not tested for blankness.
ProcessSttBlankNotChecked(r) ==
    /\ wpc[r] = "stt"
    /\ wcalls' = [wcalls EXCEPT ![r] = @ \cup {"transcribe"}]
    /\ \/ /\ wpc' = [wpc EXCEPT ![r] = "except"]
          /\ wexc' = [wexc EXCEPT ![r] = TRUE]
          /\ UNCHANGED <<wres, wtranscript, wraw>>
       \/ \E text \in Transcripts :
            /\ wtranscript' = [wtranscript EXCEPT ![r] = text]
            /\ wraw' = [wraw EXCEPT ![r] = apply_word_replacements(text)]
            /\ wpc' = [wpc EXCEPT ![r] = "llm"]
            /\ UNCHANGED <<wexc, wres>>
    /\ UNCHANGED <<gateVars, gateHist, listenerVars, appVars, lres, recVars,
                   wenables, waudio, wfmt, wllm, winserted, now, cfgVars,
                   mediaVars, fnVars, mainVars>>

\* A slip: a failure of transcribe is treated as a fallback case and the run
\* goes on to insertion with an empty text.
ProcessSttFailureFallsBack(r) ==
    /\ wpc[r] = "stt"
    /\ wcalls' = [wcalls EXCEPT ![r] = @ \cup {"transcribe"}]
    /\ \/ /\ wpc' = [wpc EXCEPT ![r] = "insert"]
          /\ UNCHANGED <<wexc, wres, wtranscript, wraw>>
       \/ \E text \in Transcripts :
            /\ wtranscript' = [wtranscript EXCEPT ![r] = text]
            /\ IF strip(text) = <<>>
               THEN /\ wpc' = [wpc EXCEPT ![r] = "finally"]
                    /\ wres' = [wres EXCEPT ![r] = "blank"]
                    /\ UNCHANGED <<wexc, wraw>>
               ELSE /\ wraw' = [wraw EXCEPT
                                   ![r] = apply_word_replacements(text)]
                    /\ wpc' = [wpc EXCEPT ![r] = "llm"]
                    /\ UNCHANGED <<wexc, wres>>
    /\ UNCHANGED <<gateVars, gateHist, listenerVars, appVars, lres, recVars,
                   wenables, waudio, wfmt, wllm, winserted, now, cfgVars,
                   mediaVars, fnVars, mainVars>>

\* step 2: self._stt.transcribe raises or returns a text; a text that is
\* blank ends the run, any other goes through the word replacements
ProcessStt(r) ==
    /\ wpc[r] = "stt"
    /\ wcalls' = [wcalls EXCEPT ![r] = @ \cup {"transcribe"}]
    /\ \/ /\ wpc' = [wpc EXCEPT ![r] = "except"]
          /\ wexc' = [wexc EXCEPT ![r] = TRUE]
          /\ UNCHANGED <<wres, wtranscript, wraw>>
       \/ \E text \in Transcripts :
            /\ wtranscript' = [wtranscript EXCEPT ![r] = text]
            /\ IF strip(text) = <<>>
               THEN /\ wpc' = [wpc EXCEPT ![r] = "finally"]
                    /\ wres' = [wres EXCEPT ![r] = "blank"]
                    /\ UNCHANGED <<wexc, wraw>>
               ELSE /\ wraw' = [wraw EXCEPT
                                   ![r] = apply_word_replacements(text)]
                    /\ wpc' = [wpc EXCEPT ![r] = "llm"]
                    /\ UNCHANGED <<wexc, wres>>
    /\ UNCHANGED <<gateVars, gateHist, listenerVars, appVars, lres, recVars,
                   wenables, waudio, wfmt, wllm, winserted, now, cfgVars,
                   mediaVars, fnVars, mainVars>>

\* A slip: no try/except around format_text, so its exception reaches the
\* except clause of the run.
ProcessLlmExceptionEscapes(r) ==
    /\ wpc[r] = "llm"
    /\ IF should_skip_llm(wraw[r])
       THEN /\ wfmt' = [wfmt EXCEPT ![r] = wraw[r]]
            /\ wllm' = [wllm EXCEPT ![r] = "skipped"]
            /\ wpc' = [wpc EXCEPT ![r] = "insert"]
            /\ UNCHANGED <<wcalls, wexc>>
       ELSE /\ wcalls' = [wcalls EXCEPT ![r] = @ \cup {"format_text"}]
            /\ \/ /\ wllm' = [wllm EXCEPT ![r] = "raised"]
                  /\ wpc' = [wpc EXCEPT ![r] = "except"]
                  /\ wexc' = [wexc EXCEPT ![r] = TRUE]
                  /\ UNCHANGED wfmt
               \/ \E content \in ModelAnswers(wraw[r]) :
                    /\ wfmt' = [wfmt EXCEPT
                                  ![r] = format_text(wraw[r], content)]
                    /\ wllm' = [wllm EXCEPT ![r] = "returned"]
                    /\ wpc' = [wpc EXCEPT ![r] = "insert"]
                    /\ UNCHANGED wexc
    /\ UNCHANGED <<gateVars, gateHist, listenerVars, appVars, lres, recVars,
                   wres, wenables, waudio, wtranscript, wraw, winserted, now,
                   cfgVars, mediaVars, fnVars, mainVars>>

\* step 3: the cleanup stage is skipped, or format_text is called and
\* returns, or raises and is caught by the inner try/except; the run goes on
\* to insertion in each case
ProcessLlm(r) ==
    /\ wpc[r] = "llm"
    /\ IF should_skip_llm(wraw[r])
       THEN /\ wfmt' = [wfmt EXCEPT ![r] = wraw[r]]
            /\ wllm' = [wllm EXCEPT ![r] = "skipped"]
            /\ UNCHANGED wcalls
       ELSE /\ wcalls' = [wcalls EXCEPT ![r] = @ \cup {"format_text"}]
            /\ \/ /\ wllm' = [wllm EXCEPT ![r] = "raised"]
                  /\ wfmt' = [wfmt EXCEPT ![r] = wraw[r]]
               \/ \E content \in ModelAnswers(wraw[r]) :
                    /\ wfmt' = [wfmt EXCEPT
                                  ![r] = format_text(wraw[r], content)]
                    /\ wllm' = [wllm EXCEPT ![r] = "returned"]
    /\ wpc' = [wpc EXCEPT ![r] = "insert"]
    /\ UNCHANGED <<gateVars, gateHist, listenerVars, appVars, lres, recVars,
                   wexc, wres, wenables, waudio, wtranscript, wraw, winserted,
                   now, cfgVars, mediaVars, fnVars, mainVars>>

\* step 4: self._inserter.insert(formatted_text) returns or raises
ProcessInsert(r) ==
    /\ wpc[r] = "insert"
    /\ wcalls' = [wcalls EXCEPT ![r] = @ \cup {"insert"}]
    /\ winserted' = [winserted EXCEPT ![r] = wfmt[r]]
    /\ \E raises \in BOOLEAN :
         IF raises
         THEN /\ wpc' = [wpc EXCEPT ![r] = "except"]
              /\ wexc' = [wexc EXCEPT ![r] = TRUE]
              /\ UNCHANGED wres
         ELSE /\ wpc' = [wpc EXCEPT ![r] = "finally"]
              /\ wres' = [wres EXCEPT ![r] = "inserted"]
              /\ UNCHANGED wexc
    /\ UNCHANGED <<gateVars, gateHist, listenerVars, appVars, lres, recVars,
                   wenables, waudio, wtranscript, wraw, wfmt, wllm, now,
                   cfgVars, mediaVars, fnVars, mainVars>>

\* A slip: the cleanup is at the end of the try body instead of in a finally
\* clause, so that a run that failed does not reach it.
ProcessExceptWithoutCleanup(r) ==
    /\ wpc[r] = "except"
    /\ wpc' = [wpc EXCEPT ![r] = "done"]
    /\ wexc' = [wexc EXCEPT ![r] = FALSE]
    /\ wres' = [wres EXCEPT ![r] = "error"]
    /\ UNCHANGED <<gateVars, gateHist, listenerVars, appVars, lres, recVars,
                   wenables, runVars, now, cfgVars, mediaVars, fnVars,
                   mainVars>>

\* `except Exception:` logs the exception and ends it
ProcessExcept(r) ==
    /\ wpc[r] = "except"
    /\ wpc' = [wpc EXCEPT ![r] = "finally"]
    /\ wexc' = [wexc EXCEPT ![r] = FALSE]
    /\ wres' = [wres EXCEPT ![r] = "error"]
    /\ UNCHANGED <<gateVars, gateHist, listenerVars, appVars, lres, recVars,
                   wenables, runVars, now, cfgVars, mediaVars, fnVars,
                   mainVars>>

\* A slip: the finally clause re-enables the gate first and takes the lock
\* to reset the flags and record the time afterwards.
ProcessFinallyEnablesGateFirst(r) ==
    /\ wpc[r] = "finally"
    /\ IF ~enabled
       THEN /\ set_enabled(TRUE)
            /\ UNCHANGED <<appVars, wpc, runVars>>
       ELSE /\ processing' = FALSE
            /\ worker' = 0
            /\ last_pipeline_end' = now
            /\ wpc' = [wpc EXCEPT ![r] = "enable"]
            /\ NoLocals(r)
            /\ UNCHANGED <<gateVars, recording_active>>
    /\ UNCHANGED <<gateHist, listenerVars, lres, recVars, wexc, wres,
                   wenables, now, cfgVars, mediaVars, fnVars, mainVars>>

\* `finally:` the block under self._lock; the body is over and its locals
\* are not read again
ProcessFinally(r) ==
    /\ wpc[r] = "finally"
    /\ processing' = FALSE
    /\ worker' = 0
    /\ last_pipeline_end' = now
    /\ wpc' = [wpc EXCEPT ![r] = "enable"]
    /\ NoLocals(r)
    /\ UNCHANGED <<gateVars, gateHist, listenerVars, recording_active, lres,
                   recVars, wexc, wres, wenables, now, cfgVars, mediaVars,
                   fnVars, mainVars>>

\* `finally:` self._hotkey.set_enabled(True), and the thread ends
ProcessEnableGate(r) ==
    /\ wpc[r] = "enable"
    /\ set_enabled(TRUE)
    /\ wenables' = [wenables EXCEPT ![r] = @ + 1]
    /\ wpc' = [wpc EXCEPT ![r] = "done"]
    /\ UNCHANGED <<gateHist, listenerVars, appVars, lres, recVars, wexc, wres,
                   runVars, now, cfgVars, mediaVars, fnVars, mainVars>>

WorkerNext ==
    \E r \in Workers :
        \/ ProcessStop(r)
        \/ ProcessStt(r)
        \/ ProcessLlm(r)
        \/ ProcessInsert(r)
        \/ ProcessExcept(r)
        \/ ProcessFinally(r)
        \/ ProcessEnableGate(r)

CoordinatorNext ==
    \/ OnKeyPress
    \/ PressRecorderStart
    \/ OnKeyRelease
    \/ ReleaseDisableGate
    \/ ReleaseLaunchWorker

\* ------------------------------------- VoxApp.start and VoxApp.stop (app.py)
\* start: pool.submit(self._load_stt)
StartSubmitStt ==
    /\ mpc = "new"
    /\ mpc' = "submit_llm" /\ stt_task' = "running"
    /\ UNCHANGED <<gateVars, gateHist, listenerVars, appVars, lres, recVars,
                   workerVars, now, cfgVars, mediaVars, fnVars, llm_task,
                   mjoin, stream, listener_running>>

\* start: pool.submit(self._warmup_llm)
StartSubmitLlm ==
    /\ mpc = "submit_llm"
    /\ mpc' = "wait_stt" /\ llm_task' = "running"
    /\ UNCHANGED <<gateVars, gateHist, listenerVars, appVars, lres, recVars,
                   workerVars, now, cfgVars, mediaVars, fnVars, stt_task,
                   mjoin, stream, listener_running>>

\* _load_stt on a pool thread: load_model and get_vram_usage_mb return, or
\* one of them raises
LoadStt ==
    /\ stt_task = "running"
    /\ \E ok \in BOOLEAN : stt_task' = IF ok THEN "loaded" ELSE "failed"
    /\ UNCHANGED <<gateVars, gateHist, listenerVars, appVars, lres, recVars,
                   workerVars, now, cfgVars, mediaVars, fnVars, mpc, llm_task,
                   mjoin, stream, listener_running>>

\* A slip: no try/except around self._llm.warmup().
WarmupLlmNotSwallowed ==
    /\ llm_task = "running"
    /\ \E raises \in BOOLEAN :
         llm_task' = IF raises THEN "raised" ELSE "warmed"
    /\ UNCHANGED <<gateVars, gateHist, listenerVars, appVars, lres, recVars,
                   workerVars, now, cfgVars, mediaVars, fnVars, mpc, stt_task,
                   mjoin, stream, listener_running>>

\* _warmup_llm on a pool thread: self._llm.warmup() returns, or raises and
\* the except clause swallows the exception
WarmupLlm ==
    /\ llm_task = "running"
    /\ \E raises \in BOOLEAN :
         llm_task' = IF raises THEN "swallowed" ELSE "warmed"
    /\ UNCHANGED <<gateVars, gateHist, listenerVars, appVars, lres, recVars,
                   workerVars, now, cfgVars, mediaVars, fnVars, mpc, stt_task,
                   mjoin, stream, listener_running>>

\* A slip: the result of the load is not asked for.
StartSttResultNotChecked ==
    /\ mpc = "wait_stt"
    /\ stt_task \in {"loaded", "failed"}
    /\ mpc' = "wait_llm"
    /\ UNCHANGED <<gateVars, gateHist, listenerVars, appVars, lres, recVars,
                   workerVars, now, cfgVars, mediaVars, fnVars, stt_task,
                   llm_task, mjoin, stream, listener_running>>

\* start: stt_future.result() returns, or raises what _load_stt raised
StartSttResult ==
    /\ mpc = "wait_stt"
    /\ stt_task \in {"loaded", "failed"}
    /\ mpc' = IF stt_task = "loaded" THEN "wait_llm" ELSE "pool_exit"
    /\ UNCHANGED <<gateVars, gateHist, listenerVars, appVars, lres, recVars,
                   workerVars, now, cfgVars, mediaVars, fnVars, stt_task,
                   llm_task, mjoin, stream, listener_running>>

\* A slip: start goes on without waiting for the warmup task.
StartLlmResultWithoutWaiting ==
    /\ mpc = "wait_llm"
    /\ mpc' = IF llm_task = "raised" THEN "failed" ELSE "open"
    /\ UNCHANGED <<gateVars, gateHist, listenerVars, appVars, lres, recVars,
                   workerVars, now, cfgVars, mediaVars, fnVars, stt_task,
                   llm_task, mjoin, stream, listener_running>>

\* start: llm_future.result() returns, or raises what _warmup_llm raised;
\* the with block ends with both tasks finished
StartLlmResult ==
    /\ mpc = "wait_llm"
    /\ llm_task \in {"warmed", "swallowed", "raised"}
    /\ mpc' = IF llm_task = "raised" THEN "failed" ELSE "open"
    /\ UNCHANGED <<gateVars, gateHist, listenerVars, appVars, lres, recVars,
                   workerVars, now, cfgVars, mediaVars, fnVars, stt_task,
                   llm_task, mjoin, stream, listener_running>>

\* start: the exception of stt_future.result() leaves the with block, whose
\* exit waits for the pool's threads (shutdown(wait=True)), and then start
StartPoolExit ==
    /\ mpc = "pool_exit"
    /\ llm_task \in {"warmed", "swallowed", "raised"}
    /\ mpc' = "failed"
    /\ UNCHANGED <<gateVars, gateHist, listenerVars, appVars, lres, recVars,
                   workerVars, now, cfgVars, mediaVars, fnVars, stt_task,
                   llm_task, mjoin, stream, listener_running>>

\* AudioRecorder.open: nothing when there is a stream; else the stream is
\* made and started, or sd.InputStream raises, or its start() raises, and the
\* except clause swallows the exception
recorder_open(outcome) ==
    stream' = IF stream \in {"open", "unstarted"} THEN stream ELSE outcome

\* start: self._recorder.open()
StartRecorderOpen ==
    /\ mpc = "open"
    /\ \E outcome \in {"open", "failed", "unstarted"} : recorder_open(outcome)
    /\ mpc' = "hotkey_start"
    /\ UNCHANGED <<gateVars, gateHist, listenerVars, appVars, lres, recVars,
                   workerVars, now, cfgVars, mediaVars, fnVars, stt_task,
                   llm_task, mjoin, listener_running>>

\* start: self._hotkey.start(), and start returns
StartHotkey ==
    /\ mpc = "hotkey_start"
    /\ listener_running' = TRUE
    /\ mpc' = "ready"
    /\ UNCHANGED <<gateVars, gateHist, listenerVars, appVars, lres, recVars,
                   workerVars, now, cfgVars, mediaVars, fnVars, stt_task,
                   llm_task, mjoin, stream>>

\* __main__.main calls stop() when start has returned (from the signal
\* handler) or raised (from the finally clause)
StopCall ==
    /\ mpc \in {"ready", "failed"}
    /\ mpc' = "stop_hotkey"
    /\ UNCHANGED <<gateVars, gateHist, listenerVars, appVars, lres, recVars,
                   workerVars, now, cfgVars, mediaVars, fnVars, stt_task,
                   llm_task, mjoin, stream, listener_running>>

\* A slip: stop() leaves the hotkey listener running.
StopHotkeyLeavesListenerRunning ==
    /\ mpc = "stop_hotkey"
    /\ mpc' = "stop_worker"
    /\ UNCHANGED <<gateVars, gateHist, listenerVars, appVars, lres, recVars,
                   workerVars, now, cfgVars, mediaVars, fnVars, stt_task,
                   llm_task, mjoin, stream, listener_running>>

\* stop: self._hotkey.stop(), which stops the pynput listener if there is one
StopHotkey ==
    /\ mpc = "stop_hotkey"
    /\ listener_running' = FALSE
    /\ mpc' = "stop_worker"
    /\ UNCHANGED <<gateVars, gateHist, listenerVars, appVars, lres, recVars,
                   workerVars, now, cfgVars, mediaVars, fnVars, stt_task,
                   llm_task, mjoin, stream>>

\* stop: worker = self._worker; if worker is not None and worker.is_alive()
StopReadWorker ==
    /\ mpc = "stop_worker"
    /\ IF worker # 0 /\ wpc[worker] \in RunningPcs
       THEN mjoin' = worker /\ mpc' = "stop_join"
       ELSE mjoin' = 0 /\ mpc' = "stop_close"
    /\ UNCHANGED <<gateVars, gateHist, listenerVars, appVars, lres, recVars,
                   workerVars, now, cfgVars, mediaVars, fnVars, stt_task,
                   llm_task, stream, listener_running>>

\* A slip: join() without a timeout.
StopJoinWithoutTimeout ==
    /\ mpc = "stop_join"
    /\ wpc[mjoin] \notin RunningPcs
    /\ mpc' = "stop_close"
    /\ UNCHANGED <<gateVars, gateHist, listenerVars, appVars, lres, recVars,
                   workerVars, now, cfgVars, mediaVars, fnVars, stt_task,
                   llm_task, mjoin, stream, listener_running>>

\* stop: worker.join(timeout=10) returns, the thread having ended or the
\* ten seconds having passed
StopJoin ==
    /\ mpc = "stop_join"
    /\ \E timed_out \in BOOLEAN : timed_out \/ wpc[mjoin] \notin RunningPcs
    /\ mpc' = "stop_close"
    /\ UNCHANGED <<gateVars, gateHist, listenerVars, appVars, lres, recVars,
                   workerVars, now, cfgVars, mediaVars, fnVars, stt_task,
                   llm_task, mjoin, stream, listener_running>>

\* AudioRecorder.close: self._stream = None, and the stream there was is
\* aborted and closed
recorder_close ==
    stream' = IF stream \in {"open", "unstarted"} THEN "closed" ELSE stream

\* stop: self._recorder.close(), and stop returns
StopRecorderClose ==
    /\ mpc = "stop_close"
    /\ recorder_close
    /\ mpc' = "stopped"
    /\ UNCHANGED <<gateVars, gateHist, listenerVars, appVars, lres, recVars,
                   workerVars, now, cfgVars, mediaVars, fnVars, stt_task,
                   llm_task, mjoin, listener_running>>

StartNext ==
    \/ StartSubmitStt
    \/ StartSubmitLlm
    \/ LoadStt
    \/ WarmupLlm
    \/ StartSttResult
    \/ StartLlmResult
    \/ StartPoolExit
    \/ StartRecorderOpen
    \/ StartHotkey

StopNext ==
    \/ StopCall
    \/ StopHotkey
    \/ StopReadWorker
    \/ StopJoin
    \/ StopRecorderClose

\* the pynput listener delivers key events while it runs
DeliverKeyDown(k) == listener_running /\ KeyDownEvent(k)

DeliverKeyUp(k) == listener_running /\ KeyUpEvent(k)

\* the sound device calls _audio_callback while the stream is open
StreamCallback == stream = "open" /\ AudioCallback

\* ------------------------------------------------------ the application
Next ==
    \/ StartNext
    \/ StopNext
    \/ \E k \in Keys : DeliverKeyDown(k)
    \/ \E k \in Keys : DeliverKeyUp(k)
    \/ HandlePress
    \/ HandleRelease
    \/ CoordinatorNext
    \/ WorkerNext
    \/ StreamCallback
    \/ Tick

Spec == Init /\ [][Next]_vars

\* ------------------------------------------------ start under any caller
\* start() called on a new application, with any configuration (as
\* tests/test_app.py calls it)
LifeNext ==
    \/ StartNext
    \/ Tick

LifeSpec == ConfigInit /\ [][LifeNext]_vars

\* --------------------------------- the coordinator under any caller
\* a caller invokes _on_key_press
CallOnKeyPress ==
    /\ lpc = "idle"
    /\ lpc' = "on_press"
    /\ UNCHANGED <<eventVars, gateVars, gateHist, appVars, lres, recVars,
                   workerVars, now, cfgVars, mediaVars, fnVars, mainVars>>

\* a caller invokes _on_key_release
CallOnKeyRelease ==
    /\ lpc = "idle"
    /\ lpc' = "on_release"
    /\ UNCHANGED <<eventVars, gateVars, gateHist, appVars, lres, recVars,
                   workerVars, now, cfgVars, mediaVars, fnVars, mainVars>>

CoordNext ==
    \/ CallOnKeyPress
    \/ CallOnKeyRelease
    \/ CoordinatorNext
    \/ WorkerNext
    \/ AudioCallback
    \/ Tick

CoordSpec == ConfigInit /\ [][CoordNext]_vars

\* ----------------------------------------- format_text under any caller
\* the texts format_text is called with: fillers, then up to MaxBodyLen
\* letters, blanks and punctuation
Rep(ch, n) == [i \in 1..n |-> ch]

SeqsUpTo(S, n) == UNION {[1..k -> S] : k \in 0..n}

RECURSIVE Repeat(_, _)
Repeat(s, n) == IF n = 0 THEN <<>> ELSE s \o Repeat(s, n - 1)

RawTexts ==
    {Repeat(llm_FILLERS[1], j) \o body :
        j \in 0..MaxFillers,
        body \in SeqsUpTo({"a", "b", " ", "."}, MaxBodyLen)}

\* what the model may answer to raw_text: nothing, or one of a few texts
\* (empty, the input, the input without fillers, another text) followed by
\* up to MaxPad characters, bare or behind a think block or inside the
\* delimiters
AnswerBases(raw_text) ==
    {<<>>, raw_text, strip_known_fillers(raw_text), <<"c", "b">>}

AnswerTexts(raw_text) ==
    {base \o Rep(ch, k) :
        base \in AnswerBases(raw_text), ch \in {"a", "c", "."}, k \in 0..MaxPad}

FormatAnswers(raw_text) ==
    {None}
        \cup AnswerTexts(raw_text)
        \cup {<<THINK_OPEN, "c", THINK_CLOSE, "\n">> \o t :
                 t \in AnswerTexts(raw_text)}
        \cup {DELIMITER_START \o t \o DELIMITER_END :
                 t \in AnswerTexts(raw_text)}

\* a caller is about to call format_text(raw_text)
FormatInit ==
    /\ Constructed
    /\ skip_short = TRUE /\ llm_enabled = TRUE
    /\ f_pc = "idle" /\ f_raw \in RawTexts
    /\ f_content = <<>> /\ f_result = <<>> /\ f_valid = "none"
    /\ f_duration = 0 /\ NoRecorderCall

\* format_text returns: without a call of the model for a blank raw_text,
\* else after the model has answered
FormatTextReturns ==
    /\ f_pc = "idle"
    /\ \E content \in FormatAnswers(f_raw) :
         /\ f_content' = content
         /\ f_result' = format_text(f_raw, content)
    /\ f_pc' = "returned"
    /\ UNCHANGED <<gateVars, gateHist, listenerVars, appVars, lres, recVars,
                   workerVars, now, cfgVars, mediaVars, mainVars, f_raw,
                   f_valid, f_duration, recCallVars>>

\* the call of the model raises (a timeout, a refused connection)
FormatTextRaises ==
    /\ f_pc = "idle"
    /\ strip(f_raw) # <<>>
    /\ f_pc' = "raised"
    /\ UNCHANGED <<gateVars, gateHist, listenerVars, appVars, lres, recVars,
                   workerVars, now, cfgVars, mediaVars, mainVars, f_raw,
                   f_content, f_result, f_valid, f_duration, recCallVars>>

FormatNext ==
    \/ FormatTextReturns
    \/ FormatTextRaises

FormatSpec == FormatInit /\ [][FormatNext]_vars

\* ---------------------------------- _is_valid_formatting under any caller
\* the input texts: empty, punctuation, a digit, letters, a filler before a
\* letter, each followed by up to MaxTextPad letters
ValidHeads == {<<>>, <<".">>, <<"1">>, <<"b">>, <<"b", " ">>, <<"u", "m", "b">>}

ValidInputs == {head \o Rep("a", n) : head \in ValidHeads, n \in 0..MaxTextPad}

\* k characters of an explanation written with the letters c, d, e
Explanation(k) == [i \in 1..k |-> <<"c", "d", "e">>[((i - 1) % 3) + 1]]

\* the outputs: the input itself; the input followed by up to MaxPad
\* characters (one letter repeated, several letters, punctuation, digits);
\* texts without a character of the input (empty, punctuation, digits,
\* letters)
ValidOutputs(t) ==
    {t}
        \cup {t \o Rep(ch, k) : ch \in {"c", ".", "1"}, k \in 1..MaxPad}
        \cup {t \o Explanation(k) : k \in 1..MaxPad}
        \cup {Explanation(k) : k \in 0..3}
        \cup {<<"\n">>, <<"2">>, <<"2", "c">>}

\* a caller is about to call _is_valid_formatting(raw_input, llm_output)
\* (as tests/test_llm.py TestIsValidFormatting does)
ValidInit ==
    /\ Constructed
    /\ skip_short = TRUE /\ llm_enabled = TRUE
    /\ f_pc = "validate" /\ f_raw \in ValidInputs
    /\ f_content \in ValidOutputs(f_raw)
    /\ f_result = <<>> /\ f_valid = "none" /\ f_duration = 0
    /\ NoRecorderCall

IsValidFormattingReturns ==
    /\ f_pc = "validate"
    /\ f_valid' = IF is_valid_formatting(f_raw, f_content)
                  THEN "valid" ELSE "invalid"
    /\ f_pc' = "validated"
    /\ UNCHANGED <<gateVars, gateHist, listenerVars, appVars, lres, recVars,
                   workerVars, now, cfgVars, mediaVars, mainVars, f_raw,
                   f_content, f_result, f_duration, recCallVars>>

ValidNext == IsValidFormattingReturns

ValidSpec == ValidInit /\ [][ValidNext]_vars

\* ------------------------------- _validate_transcription under any caller
\* the texts: up to MaxTextLen letters, line breaks and simplified Chinese
\* characters
FilterTexts == SeqsUpTo({"a", "b", "\n", "z"}, MaxTextLen)

\* a caller is about to call _validate_transcription(text, duration) (as
\* tests/test_hallucination.py does)
FilterInit ==
    /\ Constructed
    /\ skip_short = TRUE /\ llm_enabled = TRUE
    /\ f_pc = "filter" /\ f_raw \in FilterTexts
    /\ f_duration \in 0..MaxDuration
    /\ f_content = <<>> /\ f_result = <<>> /\ f_valid = "none"
    /\ NoRecorderCall

ValidateTranscriptionReturns ==
    /\ f_pc = "filter"
    /\ f_result' = validate_transcription(f_raw, f_duration)
    /\ f_pc' = "filtered"
    /\ UNCHANGED <<gateVars, gateHist, listenerVars, appVars, lres, recVars,
                   workerVars, now, cfgVars, mediaVars, mainVars, f_raw,
                   f_content, f_valid, f_duration, recCallVars>>

FilterNext == ValidateTranscriptionReturns

FilterSpec == FilterInit /\ [][FilterNext]_vars

\* ------------------------------------- the recorder under any caller
\* threads are about to call start() and stop() on a new recorder whose
\* stream is open
RecInit ==
    /\ Constructed
    /\ skip_short = TRUE /\ llm_enabled = TRUE
    /\ f_pc = "rec" /\ f_raw = <<>> /\ f_content = <<>>
    /\ f_result = <<>> /\ f_valid = "none" /\ f_duration = 0
    /\ NoRecorderCall

\* a thread calls start() or stop() and waits for the recorder's lock
CallRecorder(c, method) ==
    /\ f_calls[c] = "none"
    /\ f_calls' = [f_calls EXCEPT ![c] = method]
    /\ UNCHANGED <<gateVars, gateHist, listenerVars, appVars, lres, recVars,
                   workerVars, now, cfgVars, mediaVars, mainVars, f_pc, f_raw,
                   f_content, f_result, f_valid, f_duration, f_audio, f_last>>

\* start(): the block under the lock, and the return
RecorderStartReturns(c) ==
    /\ f_calls[c] = "start"
    /\ recorder_start
    /\ f_calls' = [f_calls EXCEPT ![c] = "none"]
    /\ f_last' = "start"
    /\ UNCHANGED <<gateVars, gateHist, listenerVars, appVars, lres, workerVars,
                   now, cfgVars, mediaVars, mainVars, f_pc, f_raw, f_content,
                   f_result, f_valid, f_duration, f_audio>>

\* stop(): the block under the lock, and the return of the frames it took
RecorderStopReturns(c) ==
    /\ f_calls[c] = "stop"
    /\ recorder_stop
    /\ f_audio' = frame_count
    /\ f_calls' = [f_calls EXCEPT ![c] = "none"]
    /\ f_last' = "stop"
    /\ UNCHANGED <<gateVars, gateHist, listenerVars, appVars, lres, workerVars,
                   now, cfgVars, mediaVars, mainVars, f_pc, f_raw, f_content,
                   f_result, f_valid, f_duration>>

RecNext ==
    \/ \E c \in Callers, method \in {"start", "stop"} : CallRecorder(c, method)
    \/ \E c \in Callers : RecorderStartReturns(c)
    \/ \E c \in Callers : RecorderStopReturns(c)
    \/ AudioCallback

RecSpec == RecInit /\ [][RecNext]_vars

\* ================================================================ claims

\* C1 (Spec): at most one worker thread is inside _process_pipeline at any
\* time, and a worker that has not yet run its cleanup holds the active-run
\* flag: _processing is true from the moment the release handler took it
\* until the worker's finally clause gives it back.
C1_AtMostOneRun ==
    /\ Cardinality({r \in Workers : wpc[r] \in RunningPcs}) <= 1
    /\ \A r \in Workers : wpc[r] \in BodyPcs => processing

\* a trigger key-down arrived while a run was in flight and was handled
C1_Witness ==
    \E r \in Workers :
        /\ wpc[r] \in BodyPcs
        /\ processing
        /\ gres = "down_disabled"
        /\ lpc = "idle"

\* C2 (Spec): a release that reaches the coordinator while no capture
\* session is open returns at once: no flag is taken, no worker is made or
\* started, the gate is not disabled and the recorder is not touched.
C2_ReleaseWithoutPressIsNoOp ==
    [][(lpc = "on_release" /\ ~recording_active /\ lpc' # lpc) =>
          /\ lpc' = "idle"
          /\ UNCHANGED <<processing, recording_active, worker, enabled, wpc,
                         is_recording, frame_count>>]_vars

\* a key-up was passed on by the gate and the coordinator found no session
C2_Witness ==
    /\ lres = "rel_nosession"
    /\ gres = "up_fired"
    /\ lpc = "idle"
    /\ ~processing
    /\ worker = 0

\* C3 (CoordSpec): a release that arrives while _processing is true returns
\* at once: it starts no worker, does not call set_enabled and leaves
\* _processing and _worker as they were.
C3_ReleaseDuringRunIsNoOp ==
    [][(lpc = "on_release" /\ processing /\ lpc' # lpc) =>
          /\ lpc' = "idle"
          /\ UNCHANGED <<processing, worker, enabled, wpc>>]_vars

\* a release was handled, and ignored, while a run held the flag
C3_Witness ==
    /\ lres = "rel_nosession"
    /\ lpc = "idle"
    /\ processing
    /\ \E r \in Workers : wpc[r] \in BodyPcs

\* C4 (CoordSpec): a press opens a capture session (sets _recording_active,
\* then calls recorder.start) exactly when no run is active and at least
\* the cooldown has passed since the last run ended; otherwise it returns
\* with the capture flag and the recorder untouched.
C4_PressOpensSessionIff ==
    [][/\ (lpc = "on_press" /\ lpc' # lpc) =>
            IF ~processing /\ now >= last_pipeline_end + PIPELINE_COOLDOWN
            THEN recording_active' /\ lpc' = "rec_start"
            ELSE /\ lpc' = "idle"
                 /\ UNCHANGED <<recording_active, is_recording, frame_count>>
       /\ (lpc = "rec_start" /\ lpc' # lpc) => (is_recording' /\ lpc' = "idle")
       /\ (lpc' = "rec_start" /\ lpc # "rec_start") => lpc = "on_press"]_vars

\* a press was rejected in the cooldown that followed a finished run
C4_Witness ==
    /\ lres = "press_cooldown"
    /\ lpc = "idle"
    /\ ~recording_active
    /\ last_pipeline_end > 0
    /\ \E r \in Workers : wpc[r] = "done"

\* C5 (Spec): the gate is disabled before the worker is started, is
\* disabled in every state in which a worker is inside _process_pipeline,
\* and each run calls set_enabled(True) exactly once, as its last step.
C5_GateDisabledDuringRun ==
    /\ lpc = "launch" => ~enabled
    /\ lpc = "disable" => \A r \in Workers : wpc[r] \notin RunningPcs
    /\ \A r \in Workers :
        /\ wpc[r] \in RunningPcs => (~enabled /\ wenables[r] = 0)
        /\ wpc[r] = "done" => wenables[r] = 1

\* a run that inserted its text has ended and re-enabled the gate once
C5_Witness ==
    \E r \in Workers :
        /\ wpc[r] = "done"
        /\ wres[r] = "inserted"
        /\ wenables[r] = 1
        /\ enabled

\* C6 (Spec): a worker leaves _process_pipeline only through its finally
\* clause: the lock block clears _processing and _worker and stamps
\* _last_pipeline_end with the current time, then the gate is re-enabled,
\* and no exception is left propagating when the thread ends.
C6_CleanupOnEveryPath ==
    [][\A r \in Workers :
          /\ (wpc[r] = "finally" /\ wpc'[r] # "finally") =>
                /\ wpc'[r] = "enable"
                /\ ~processing' /\ worker' = 0
                /\ last_pipeline_end' = now
          /\ (wpc'[r] = "enable" /\ wpc[r] # "enable") => wpc[r] = "finally"
          /\ (wpc'[r] = "done" /\ wpc[r] # "done") =>
                /\ wpc[r] = "enable"
                /\ enabled' /\ ~processing'
                /\ ~wexc'[r]
          /\ (wexc[r] /\ wpc'[r] # wpc[r]) => (wpc'[r] = "finally" /\ ~wexc'[r])
      ]_vars

\* a run that ended in an exception has been cleaned up
C6_Witness ==
    \E r \in Workers :
        /\ wpc[r] = "done"
        /\ wres[r] = "error"
        /\ ~processing
        /\ enabled
        /\ last_pipeline_end > 0

\* C7 (GateSpec), as claimed: pressed is never true while the gate is
\* disabled.
C7_PressedOnlyWhileEnabled ==
    is_pressed => enabled

\* C8 (GateSpec), as claimed: a set_enabled(False) that disables the gate
\* leaves pressed false.
C8_DisableClearsPressed ==
    [][(enabled /\ ~enabled') => ~is_pressed']_vars

\* C9 (GateSpec), as claimed: an event that arrives while the gate is
\* disabled, and is handled while it is still disabled, invokes neither
\* callback.
C9_NoCallbackWhileDisabled ==
    [][(lpc \in {"h_down", "h_up"} /\ arrived_disabled /\ ~enabled) =>
          lpc' \notin {"on_press", "on_release"}]_vars

\* C10 (GateSpec): a trigger key-down handled while the gate is marked
\* pressed invokes no callback and changes no gate state, and the callbacks
\* the gate invokes alternate: on_press first, and never two of a kind in a
\* row.
C10_KeyRepeatIdempotent ==
    [][/\ (lpc = "h_down" /\ is_pressed /\ lpc' # lpc) =>
            (lpc' = "idle" /\ UNCHANGED <<enabled, is_pressed, last_cb>>)
       /\ (lpc' = "on_press" /\ lpc # "on_press") =>
            last_cb \in {"none", "release"}
       /\ (lpc' = "on_release" /\ lpc # "on_release") => last_cb = "press"
      ]_vars

\* a repeated key-down was ignored while the gate was enabled and pressed
C10_Witness ==
    /\ gres = "down_repeat"
    /\ lpc = "idle"
    /\ is_pressed
    /\ enabled
    /\ last_cb = "press"

\* C11 (Spec): when format_text raises, whatever the exception, the run does
\* not fail: it goes on to insertion, and the text handed to the inserter is
\* exactly raw_text, the transcript as it was before the cleanup stage.
C11_CleanupFailureFallsBackToTranscript ==
    \A r \in Workers :
        wllm[r] = "raised" =>
            /\ wpc[r] \in {"insert", "finally", "except"}
            /\ wfmt[r] = wraw[r]
            /\ wpc[r] = "insert" => ~wexc[r] /\ "insert" \notin wcalls[r]
            /\ wpc[r] # "insert" =>
                   "insert" \in wcalls[r] /\ winserted[r] = wraw[r]

\* a run whose cleanup call raised has inserted its transcript
C11_Witness ==
    \E r \in Workers :
        /\ wllm[r] = "raised" /\ wres[r] = "inserted"
        /\ wpc[r] = "finally"
        /\ winserted[r] = wraw[r] /\ wraw[r] # <<>>

\* what format_text made of the model's answer before checking it
C12_Output == clean_result(IF f_content = None THEN <<>> ELSE f_content)

\* C12 (FormatSpec): when format_text returns, it returns either the
\* model's output or the input trimmed; it returns an output that differs
\* from the trimmed input only if the output passes _is_valid_formatting and
\* is not longer than 1.5 x the input's length + 10; an output that fails
\* either test is never returned, the trimmed input is.
C12_OutputOnlyIfValidAndShort ==
    f_pc = "returned" =>
        /\ f_result \in {C12_Output, strip(f_raw)}
        /\ f_result # strip(f_raw) =>
               /\ is_valid_formatting(f_raw, C12_Output)
               /\ 2 * Len(C12_Output) <= 3 * Len(f_raw) + 20
        /\ \/ ~is_valid_formatting(f_raw, C12_Output)
           \/ 2 * Len(C12_Output) > 3 * Len(f_raw) + 20
           => f_result = strip(f_raw)

\* an output the validator accepts but that is too long was replaced by
\* the trimmed input
C12_Witness ==
    /\ f_pc = "returned"
    /\ strip(f_raw) # <<>>
    /\ is_valid_formatting(f_raw, C12_Output)
    /\ 2 * Len(C12_Output) > 3 * Len(f_raw) + 20
    /\ f_result = strip(f_raw) /\ f_result # C12_Output

\* C13 (Spec): a run calls the recognizer only with a capture that is not
\* empty and lasts at least min_duration_sec; a run whose capture is empty
\* or shorter (one block of 0.25 s against a minimum of 0.5 s) ends without
\* a call of the recognizer, of the cleanup collaborator or of the inserter.
C13_ShortCaptureCallsNothing ==
    \A r \in Workers :
        /\ wpc[r] = "stt" \/ "transcribe" \in wcalls[r] =>
               waudio[r] > 0 /\ waudio[r] >= MinDurationFrames
        /\ wpc[r] \in {"llm", "insert"} => "transcribe" \in wcalls[r]
        /\ wres[r] \in {"no_audio", "too_short"} =>
               /\ wcalls[r] = {} /\ wllm[r] = "none"
               /\ wpc[r] \in {"finally", "enable", "done"}
               /\ waudio[r] < MinDurationFrames

\* a run with one block of audio is over and has called nothing
C13_Witness ==
    \E r \in Workers :
        /\ wpc[r] = "finally" /\ wres[r] = "too_short"
        /\ waudio[r] = 1 /\ wcalls[r] = {}

\* C14 (Spec): when the recognizer returns a text that is empty after
\* trimming (the empty string of a rejected transcript included), the run
\* ends there: it calls neither the cleanup collaborator nor the inserter.
C14_BlankTranscriptCallsNothingMore ==
    \A r \in Workers :
        wtranscript[r] # None /\ strip(wtranscript[r]) = <<>> =>
            /\ wpc[r] = "finally" /\ wres[r] = "blank"
            /\ wcalls[r] = {"transcribe"} /\ wllm[r] = "none"

\* a run whose recognizer returned blanks is over
C14_Witness ==
    \E r \in Workers :
        /\ wtranscript[r] = <<" ">>
        /\ wpc[r] = "finally" /\ wcalls[r] = {"transcribe"}

\* C15 (CoordSpec): when the configuration turns cleanup off (llm.enabled =
\* False), no run calls format_text, whatever the length of the transcript
\* and whether or not it holds a filler, and the text handed to the inserter
\* is the transcript as it is.
C15_DisabledCleanupIsNeverCalled ==
    ~llm_enabled =>
        \A r \in Workers :
            /\ "format_text" \notin wcalls[r]
            /\ "insert" \in wcalls[r] => winserted[r] = wraw[r]

\* C16 (CoordSpec): with skip_short on, the cleanup stage is skipped exactly when
\* the transcript is at most skip_short_max_chars long and holds none of the
\* fillers: a short transcript with a filler and a longer transcript go to
\* format_text; with skip_short off the stage is never skipped.
C16_SkippedExactlyWhenShortAndClean ==
    \A r \in Workers :
        wllm[r] # "none" =>
            /\ wllm[r] = "skipped" <=>
                   /\ skip_short
                   /\ Len(wraw[r]) <= skip_short_max_chars
                   /\ \A n \in 1..Len(app_FILLERS) :
                          ~contains(wraw[r], app_FILLERS[n])
            /\ wllm[r] = "skipped" <=> "format_text" \notin wcalls[r]

\* a short transcript with a filler has gone through format_text, with
\* skip_short on
C16_Witness ==
    \E r \in Workers :
        /\ skip_short /\ Len(wraw[r]) <= skip_short_max_chars
        /\ contains(wraw[r], app_FILLERS[1])
        /\ wllm[r] = "returned" /\ wres[r] = "inserted"

\* C17 (LifeSpec): once _load_stt has failed, start never goes on to wait for
\* the warmup's result, to open the stream or to start the listener, and never
\* returns normally; the stream is never opened and the listener never
\* started, whether the warmup has finished, swallowed an exception or is
\* still running.
C17_SttFailureAbortsStartup ==
    stt_task = "failed" =>
        /\ mpc \notin {"wait_llm", "open", "hotkey_start", "ready"}
        /\ stream = "none"
        /\ ~listener_running

\* start has raised the load's failure, out of the pool's exit, after a warmup
\* that raised as well
C17_Witness ==
    /\ mpc = "failed" /\ stt_task = "failed" /\ llm_task = "swallowed"
    /\ stream = "none" /\ ~listener_running

\* C18 (LifeSpec): the warmup task never ends with an exception of its own, so
\* with the recognition model loaded start never fails: it does not leave
\* through the pool's exit and does not raise, and when it has returned
\* recorder.open() has been called and the listener runs.
C18_WarmupFailureIsSwallowed ==
    /\ llm_task # "raised"
    /\ stt_task = "loaded" => mpc \notin {"pool_exit", "failed"}
    /\ mpc = "ready" => stream # "none" /\ listener_running

\* start has returned with the stream open and the listener running after a
\* warmup that raised
C18_Witness ==
    /\ mpc = "ready" /\ stt_task = "loaded" /\ llm_task = "swallowed"
    /\ stream = "open" /\ listener_running

\* C19 (LifeSpec): with cleanup disabled in the configuration, start does not
\* submit the warmup: the warmup task never runs.
C19_DisabledCleanupIsNotWarmedUp ==
    ~llm_enabled => llm_task = "none"

\* C20 (Spec): stop is never blocked, each of its steps can be taken when the
\* main thread is at it, the join too while the worker still runs; from its
\* first step on the listener is stopped and delivers no key event; the
\* stream is not closed before the join is over and there is no stream left
\* when stop has returned, whether the worker has ended or not.
C20_StopOrderAndCompletion ==
    /\ mpc \in StopPcs =>
           ENABLED (StopHotkey \/ StopReadWorker \/ StopJoin
                    \/ StopRecorderClose)
    /\ mpc \in {"stop_worker", "stop_join", "stop_close", "stopped"} =>
           /\ ~listener_running
           /\ ~ENABLED (\E k \in Keys : DeliverKeyDown(k) \/ DeliverKeyUp(k))
    /\ mpc \in {"stop_hotkey", "stop_worker", "stop_join"} =>
           stream # "closed"
    /\ mpc = "stopped" => stream \notin {"open", "unstarted"}

\* stop has returned with the stream closed while the worker it waited for
\* still runs
C20_Witness ==
    /\ mpc = "stopped" /\ stream = "closed" /\ ~listener_running
    /\ mjoin # 0 /\ wpc[mjoin] \in RunningPcs

\* the output of the call is its input followed by an appended text
C21_Appended ==
    /\ f_pc = "validated"
    /\ Len(f_content) > Len(f_raw)
    /\ SubSeq(f_content, 1, Len(f_raw)) = f_raw

C21_Explanation == SubSeq(f_content, Len(f_raw) + 1, Len(f_content))

\* characters of the input and of the appended text that are no punctuation
C21_InputLen == Len(punct_sub(f_raw))

C21_ExtraLen == Len(punct_sub(f_content)) - C21_InputLen

C22_Disjoint ==
    /\ f_pc = "validated"
    /\ {f_content[i] : i \in 1..Len(f_content)}
           \cap {f_raw[i] : i \in 1..Len(f_raw)} = {}

\* C22 as stated (ValidSpec): for a non-empty input, an output that shares no
\* character with it is invalid.
C22_DisjointOutputIsInvalid ==
    C22_Disjoint /\ f_raw # <<>> => f_valid = "invalid"

\* C22 (ValidSpec), amended: an output that shares no character with its
\* input is invalid exactly when the input has a character other than
\* punctuation and whitespace and the output has a letter.
C22_DisjointLettersAreInvalid ==
    C22_Disjoint =>
        (f_valid = "invalid" <=>
             /\ punct_sub(f_raw) # <<>>
             /\ extract_content_chars(f_content) # {})

\* a text of 20 letters against letters it does not have
C22_Witness ==
    /\ C22_Disjoint
    /\ Len(punct_sub(f_raw)) = 20 /\ Len(f_content) = 3
    /\ Cardinality(extract_content_chars(f_content)) = 3
    /\ f_valid = "invalid"

\* C23 (ValidSpec): an output identical to the input is valid, and an input
\* without a character other than punctuation and whitespace is valid against
\* every output.
C23_IdentityAndEmptyInputAreValid ==
    f_pc = "validated" =>
        /\ f_content = f_raw => f_valid = "valid"
        /\ punct_sub(f_raw) = <<>> => f_valid = "valid"

\* a text of more than ten characters that starts with a filler was validated
\* against itself
C23_Witness ==
    /\ f_pc = "validated" /\ f_valid = "valid"
    /\ f_content = f_raw /\ contains(f_raw, llm_FILLERS[1])
    /\ Len(f_raw) > 10

\* the text of the call has three or more consecutive copies of a substring
\* of two or more characters
C24_Repeats ==
    \E i \in 1..Len(f_raw), n \in 2..Len(f_raw) :
        /\ i + 3 * n - 1 <= Len(f_raw)
        /\ SubSeq(f_raw, i, i + n - 1) = SubSeq(f_raw, i + n, i + 2 * n - 1)
        /\ SubSeq(f_raw, i, i + n - 1)
               = SubSeq(f_raw, i + 2 * n, i + 3 * n - 1)

\* ... and one such substring has no line break
C24_RepeatsOnOneLine ==
    \E i \in 1..Len(f_raw), n \in 2..Len(f_raw) :
        /\ i + 3 * n - 1 <= Len(f_raw)
        /\ "\n" \notin {f_raw[j] : j \in i..(i + n - 1)}
        /\ SubSeq(f_raw, i, i + n - 1) = SubSeq(f_raw, i + n, i + 2 * n - 1)
        /\ SubSeq(f_raw, i, i + n - 1)
               = SubSeq(f_raw, i + 2 * n, i + 3 * n - 1)

\* the other three rules: a boilerplate phrase, an off-script character, more
\* than MaxCharsPerSec characters per second of an audio shorter than
\* ShortAudioDuration (and longer than nothing)
C24_OtherRules ==
    \/ \E n \in 1..Len(HALLUCINATION_PATTERNS) :
           contains(f_raw, HALLUCINATION_PATTERNS[n])
    \/ \E i \in 1..Len(f_raw) : f_raw[i] \in SIMPLIFIED_CHINESE_CHARS
    \/ /\ f_duration > 0 /\ f_duration < ShortAudioDuration
       /\ 2 * Len(f_raw) > MaxCharsPerSec * f_duration

\* C24 as stated (FilterSpec): the filter returns its text unchanged or the
\* empty text, and discards a text exactly when a boilerplate phrase, three
\* consecutive copies of a substring of two or more characters, an off-script
\* character or the rate rule matches.
C24_DiscardsExactlyOnFourRules ==
    f_pc = "filtered" =>
        /\ f_result \in {f_raw, <<>>}
        /\ f_result # f_raw <=> (C24_OtherRules \/ C24_Repeats)

\* C24 (FilterSpec), amended: the same with the repeated substring free of
\* line breaks.
C24_DiscardsExactlyOnFourRulesOneLine ==
    f_pc = "filtered" =>
        /\ f_result \in {f_raw, <<>>}
        /\ f_result # f_raw <=> (C24_OtherRules \/ C24_RepeatsOnOneLine)

\* three copies of a substring on one line, and nothing else, made the filter
\* discard the text of a three-second audio
C24_Witness ==
    /\ f_pc = "filtered"
    /\ f_raw = <<"a", "b", "a", "b", "a", "b">>
    /\ f_duration = ShortAudioDuration
    /\ ~C24_OtherRules
    /\ f_result = <<>>

\* _on_key_press runs its locked block with no run active, after a run has
\* ended
C25_PressAfterRun ==
    /\ lpc = "on_press" /\ lpc' # lpc
    /\ ~processing /\ last_pipeline_end > 0

\* C25 as stated (Spec): with a cooldown of 0.3 s, a press 0.1 s after the end
\* of a run is accepted, and a press 0.2 s after it is rejected.
C25_PressAfterTenthOfSecondAccepted ==
    [][C25_PressAfterRun =>
           /\ now = last_pipeline_end + 1 => lres' = "press_ok"
           /\ now = last_pipeline_end + 2 => lres' = "press_cooldown"]_vars

\* C25 (Spec), amended: with a cooldown of 0.3 s, a press less than 0.3 s
\* after the end of a run (0.1 s, 0.2 s) is rejected and opens no capture
\* session, and a press 0.3 s after it or later is accepted.
C25_PressInsideCooldownRejected ==
    [][C25_PressAfterRun =>
           IF now < last_pipeline_end + PIPELINE_COOLDOWN
           THEN /\ lres' = "press_cooldown" /\ lpc' = "idle"
                /\ UNCHANGED recording_active
           ELSE lres' = "press_ok" /\ recording_active']_vars

\* a press was accepted 0.3 s after the end of a run
C25_Witness ==
    /\ lres = "press_ok" /\ lpc = "rec_start" /\ recording_active
    /\ ~processing /\ last_pipeline_end > 0
    /\ now = last_pipeline_end + PIPELINE_COOLDOWN
    /\ \E r \in Workers : wpc[r] = "done"

\* a step of RecSpec is the locked block of a stop()
C26_StopStep == \E c \in Callers : f_calls[c] = "stop" /\ f_calls'[c] = "none"

\* ... of a start()
C26_StartStep ==
    \E c \in Callers : f_calls[c] = "start" /\ f_calls'[c] = "none"

\* C26 (RecSpec): stop() returns every block buffered and leaves an empty
\* buffer, a zero frame count and the capture off, so a stop() that follows a
\* stop() returns nothing; start() leaves the buffer as it is while the
\* capture is on, and takes a fresh buffer when it is off; between the calls
\* only the callback changes the buffer, and it only adds to it.
C26_CaptureStartStop ==
    [][/\ C26_StopStep =>
              /\ f_audio' = frame_count
              /\ frame_count' = 0 /\ ~is_recording'
              /\ f_last = "stop" => f_audio' = 0
       /\ C26_StartStep =>
              IF is_recording
              THEN UNCHANGED <<is_recording, frame_count>>
              ELSE is_recording' /\ frame_count' = 0
       /\ ~C26_StopStep /\ ~C26_StartStep =>
              /\ frame_count' >= frame_count
              /\ frame_count' # frame_count => is_recording]_vars

\* a stop() has returned a full buffer and reset it, and a second stop() and
\* a start() are waiting for the lock
C26_Witness ==
    /\ f_last = "stop" /\ f_audio = max_frames
    /\ frame_count = 0 /\ ~is_recording
    /\ \E c \in Callers : f_calls[c] = "start"
    /\ \E c \in Callers : f_calls[c] = "stop"

\* C27 (Spec): when a press has been accepted the coordinator has called
\* pause_if_playing, and when a run has completed it has called
\* resume_if_we_paused.
C27_MediaGuardIsDriven ==
    /\ lres = "press_ok" => "pause_if_playing" \in media_calls
    /\ (\E r \in Workers : wpc[r] = "done") =>
           "resume_if_we_paused" \in media_calls

\* C28 (Spec): no blocking stage runs on the event-delivery thread.  A step
\* that executes capture stop, transcription, cleanup or insertion is a step
\* of a worker and leaves the listener where it is; a step of the listener
\* stops no capture and touches no local of a run; and the release handler,
\* once it has marked the run active, can always take its next step, and
\* returns to the listener with the gate disabled and the worker started at
\* its first stage.
C28_StageStep ==
    \E r \in Workers :
        /\ wpc[r] \in {"stop", "stt", "llm", "insert"}
        /\ wpc'[r] # wpc[r]

C28_ListenerStep == lpc' # lpc

C28_HandlerNeverWaits ==
    /\ lpc = "disable" => ENABLED ReleaseDisableGate
    /\ lpc = "launch" => ENABLED ReleaseLaunchWorker

C28_StagesRunOnlyOnWorker ==
    /\ [] C28_HandlerNeverWaits
    /\ [][/\ C28_StageStep => UNCHANGED <<listenerVars, lres, gateHist>>
          /\ C28_ListenerStep =>
                 /\ is_recording => is_recording'
                 /\ UNCHANGED runVars
          /\ (lpc = "launch" /\ lpc' # "launch") =>
                 /\ lpc' = "idle"
                 /\ processing' /\ ~enabled'
                 /\ worker' \in Workers /\ wpc'[worker'] = "stop"
                 /\ wpc[worker'] \in {"none", "done"}]_vars

\* the release handler has returned and the listener is inside the gate with
\* a later key event while the worker of the run is transcribing
C28_Witness ==
    /\ lres = "rel_started" /\ lpc \in {"h_down", "h_up"}
    /\ processing /\ ~enabled
    /\ \E r \in Workers : worker = r /\ wpc[r] = "stt"

\* C29 (Spec): at the end of every run the time of the end is recorded and
\* the active-run flag cleared before the gate is re-enabled.  The step that
\* leaves the finally clause's lock block records the present time, clears
\* the flag and leaves the gate disabled; the time is written by no other
\* step; the gate is re-enabled only by a run that has left that block; and
\* while a press accepted by the gate waits for the coordinator's press
\* handler, no run is before the end of that block and the flag is clear.
C29_FinallyStep ==
    \E r \in Workers : wpc[r] = "finally" /\ wpc'[r] # "finally"

C29_AcceptedPressSeesEndOfRun ==
    lpc = "on_press" =>
        /\ ~processing
        /\ last_pipeline_end <= now
        /\ \A r \in Workers : wpc[r] \notin BodyPcs

C29_EndRecordedBeforeGateReenabled ==
    /\ [] C29_AcceptedPressSeesEndOfRun
    /\ [][/\ C29_FinallyStep =>
                 /\ last_pipeline_end' = now /\ ~processing'
                 /\ ~enabled /\ ~enabled'
          /\ last_pipeline_end' # last_pipeline_end => C29_FinallyStep
          /\ (~enabled /\ enabled') =>
                 \E r \in Workers :
                     /\ wpc[r] = "enable" /\ wpc'[r] = "done"
                     /\ ~processing /\ worker = 0
                     /\ \A q \in Workers : wpc[q] \notin BodyPcs]_vars

\* a run has ended and re-enabled the gate, and the gate has accepted a
\* press inside the cooldown that the run's end started
C29_Witness ==
    /\ lpc = "on_press" /\ gres = "down_fired"
    /\ \E r \in Workers : wpc[r] = "done" /\ wenables[r] = 1
    /\ ~processing
    /\ last_pipeline_end > 0 /\ now < last_pipeline_end + PIPELINE_COOLDOWN

\* C30 (GateSpec): the gate calls on_press and on_release after it has left
\* the block under its lock.  A callback starts only in the step that ends
\* the lock block of _handle_press or _handle_release; while a callback runs,
\* a call of set_enabled by the callback itself or by another thread can
\* take the lock at once, sets the enabled mark and leaves the callback and
\* the press state alone; and the callback can return.
C30_InCallback == lpc \in {"on_press", "on_release"}

C30_SetEnabledNeverBlocked ==
    C30_InCallback =>
        /\ \A b \in BOOLEAN : ENABLED SetEnabledCall(b)
        /\ ENABLED CallbackReturns

C30_CallbacksRunOutsideGateLock ==
    /\ [] C30_SetEnabledNeverBlocked
    /\ [][/\ (lpc' # lpc /\ lpc' \in {"on_press", "on_release"}) =>
                 /\ lpc \in {"h_down", "h_up"}
                 /\ enabled' = enabled
          /\ (C30_InCallback /\ enabled' # enabled) =>
                 UNCHANGED <<lpc, is_pressed, gateHist>>]_vars

\* set_enabled(False) has returned while the on_press callback, which the
\* gate fired when it was enabled, is still running
C30_Witness ==
    /\ lpc = "on_press" /\ last_cb = "press" /\ gres = "down_fired"
    /\ is_pressed /\ ~enabled

\* C31 (GateSpec): an exception raised by on_press or on_release is caught
\* in the gate.  The step in which the callback raises returns the listener
\* thread to the delivery of events and leaves the gate's marks as the
\* transition set them: after a failing on_press the gate is still pressed
\* and the matching key-up fires on_release; after a failing on_release the
\* gate is not pressed and the next key-down of the trigger, handled while
\* the gate is enabled, fires on_press.
C31_RaisingStep ==
    lpc \in {"on_press", "on_release"} /\ lpc' # lpc /\ cb_raised'

C31_GateStateAfterFailure ==
    cb_raised => /\ lpc \in {"idle", "h_down", "h_up"}
                 /\ last_cb = "press" => is_pressed
                 /\ last_cb = "release" => ~is_pressed

C31_CallbackExceptionIsContained ==
    /\ [] C31_GateStateAfterFailure
    /\ [][/\ C31_RaisingStep =>
                 /\ lpc' = "idle"
                 /\ UNCHANGED <<gateVars, last_cb, gres, listener_running>>
          /\ (/\ cb_raised /\ last_cb = "press"
              /\ lpc = "h_up" /\ key \in trigger_keys /\ lpc' # lpc) =>
                 lpc' = "on_release" /\ ~is_pressed'
          /\ (/\ cb_raised /\ last_cb = "release" /\ enabled
              /\ lpc = "h_down" /\ key \in trigger_keys /\ lpc' # lpc) =>
                 lpc' = "on_press" /\ is_pressed']_vars

\* on_press has raised, and the listener thread has gone on to hand the
\* matching key-up to the gate, which is still marked pressed
C31_Witness ==
    /\ cb_raised /\ last_cb = "press" /\ is_pressed
    /\ lpc = "h_up" /\ key \in trigger_keys

\* C32 (Spec): each of the two locks is held only while its own flags are
\* read or written.  A step that calls a collaborator (recorder.start or
\* stop, transcribe, format_text, insert) writes no flag of the coordinator
\* and no mark of the gate; no step writes under both locks; and the
\* listener thread and every worker thread that is inside a handler or a
\* run can always take its next step, so that no interleaving of the two
\* deadlocks.
C32_CollaboratorStep ==
    \/ \E r \in Workers :
           /\ wpc[r] \in {"stop", "stt", "llm", "insert"}
           /\ wpc'[r] # wpc[r]
    \/ lpc = "rec_start" /\ lpc' # lpc
    \/ recVars' # recVars
    \/ \E r \in Workers : wcalls'[r] # wcalls[r] /\ wcalls'[r] # {}

C32_NoThreadIsBlocked ==
    /\ lpc = "h_down" => ENABLED HandlePress
    /\ lpc = "h_up" => ENABLED HandleRelease
    /\ lpc = "on_press" => ENABLED OnKeyPress
    /\ lpc = "rec_start" => ENABLED PressRecorderStart
    /\ lpc = "on_release" => ENABLED OnKeyRelease
    /\ lpc = "disable" => ENABLED ReleaseDisableGate
    /\ lpc = "launch" => ENABLED ReleaseLaunchWorker
    /\ \A r \in Workers :
           /\ wpc[r] = "stop" => ENABLED ProcessStop(r)
           /\ wpc[r] = "stt" => ENABLED ProcessStt(r)
           /\ wpc[r] = "llm" => ENABLED ProcessLlm(r)
           /\ wpc[r] = "insert" => ENABLED ProcessInsert(r)
           /\ wpc[r] = "except" => ENABLED ProcessExcept(r)
           /\ wpc[r] = "finally" => ENABLED ProcessFinally(r)
           /\ wpc[r] = "enable" => ENABLED ProcessEnableGate(r)

C32_LocksHeldOnlyForOwnFlags ==
    /\ [] C32_NoThreadIsBlocked
    /\ [][/\ C32_CollaboratorStep => UNCHANGED <<appVars, gateVars>>
          /\ appVars' # appVars => UNCHANGED gateVars]_vars

\* the listener thread, with a key-down of the trigger, and a worker, with
\* set_enabled(True), are both about to take the gate's lock
C32_Witness ==
    /\ lpc = "h_down" /\ key \in trigger_keys
    /\ \E r \in Workers : wpc[r] = "enable" /\ ~processing

\* C33 (Spec): a failure of the recognizer aborts the run, and a failure of
\* the insertion ends it.  When transcribe raises, the exception goes to the
\* except clause of the run; a run that has failed before its insertion has
\* called neither format_text nor insert and has inserted nothing; a failed
\* run goes on to its cleanup only; and insert is called at a point where
\* the run has not called it before, so that a failing insertion is not
\* tried again.
C33_Failed(r) ==
    wpc[r] = "except" \/ (wpc[r] = "finally" /\ wres[r] = "error")

C33_NothingAfterRecognizerFailure ==
    \A r \in Workers :
        (C33_Failed(r) /\ "insert" \notin wcalls[r]) =>
            /\ "format_text" \notin wcalls[r]
            /\ wllm[r] = "none" /\ wfmt[r] = <<>>
            /\ winserted[r] = <<>>

C33_FailuresEndTheRun ==
    /\ [] C33_NothingAfterRecognizerFailure
    /\ [][\A r \in Workers :
            /\ (/\ wpc[r] = "stt" /\ wpc'[r] # "stt"
                /\ wtranscript'[r] = None) =>
                   /\ wpc'[r] = "except" /\ wexc'[r]
                   /\ wcalls'[r] = {"transcribe"}
            /\ (wpc[r] = "insert" /\ wpc'[r] # "insert") =>
                   /\ "insert" \notin wcalls[r]
                   /\ "insert" \in wcalls'[r]
                   /\ wpc'[r] \in {"except", "finally"}
                   /\ wpc'[r] = "except" <=> wexc'[r]
            /\ (C33_Failed(r) /\ wpc'[r] # wpc[r]) =>
                   /\ wpc'[r] \in {"finally", "enable"}
                   /\ wcalls'[r] \subseteq wcalls[r]]_vars

\* transcribe has raised and the run is at its cleanup with no other
\* collaborator called
C33_Witness ==
    \E r \in Workers :
        /\ wpc[r] = "finally" /\ wres[r] = "error"
        /\ wcalls[r] = {"transcribe"} /\ wtranscript[r] = None
        /\ winserted[r] = <<>>

\* C34 (LifeSpec): start() opens the capture stream and starts the hotkey
\* listener only after the model load and the warmup, which run side by
\* side, have both finished, whichever finishes first: while one of the two
\* tasks is not finished the stream is not made, the listener does not run
\* and start is not past its waiting; and the step that leaves the waiting
\* for readiness finds the model loaded and the warmup over.
C34_BothTasksFinished ==
    /\ stt_task = "loaded"
    /\ llm_task \in {"warmed", "swallowed"}

C34_Ready ==
    \/ mpc \in {"open", "hotkey_start", "ready"}
    \/ stream # "none"
    \/ listener_running

C34_ReadinessAfterBothTasks ==
    /\ [] (C34_Ready => C34_BothTasksFinished)
    /\ [][(mpc' = "open" /\ mpc # "open") =>
              /\ mpc = "wait_llm"
              /\ C34_BothTasksFinished
              /\ UNCHANGED <<stt_task, llm_task, stream, listener_running>>
         ]_vars

\* the warmup has ended with a failure that was swallowed, the model is
\* loaded, and start has opened the stream and started the listener
C34_Witness ==
    /\ mpc = "ready" /\ listener_running /\ stream = "open"
    /\ stt_task = "loaded" /\ llm_task = "swallowed"

\* C35 (ValidSpec): when the similarity ratio of the input and the output,
\* both without punctuation and white space, is at least 0.5, the output is
\* invalid exactly when it is longer than the input by more than
\* max(0.3 x len(input), 5) characters; the retry without fillers and the
\* novel-content check have no say in that case.
C35_NormIn == punct_sub(f_raw)

C35_NormOut == punct_sub(f_content)

C35_Extra == Len(C35_NormOut) - Len(C35_NormIn)

C35_RatioReachesThreshold ==
    /\ f_pc = "validated"
    /\ ratio_reaches_threshold(C35_NormIn, C35_NormOut)

C35_HighRatioDecidedByLengthOnly ==
    C35_RatioReachesThreshold =>
        (f_valid = "invalid" <=>
             /\ 10 * C35_Extra > 3 * Len(C35_NormIn)
             /\ C35_Extra > 5)

\* an output similar to its input, six characters longer than an input of
\* fewer than twenty characters, has been found invalid
C35_Witness ==
    /\ C35_RatioReachesThreshold
    /\ C35_NormIn # <<>> /\ Len(C35_NormIn) < 20
    /\ C35_Extra = 6
    /\ f_valid = "invalid"

\* C36 (CoordSpec): the capture-session flag and the active-run flag are
\* never both true.  Hence the release handler never takes its branch for a
\* run that is already active after it has found a session; a release that
\* finds a session closes it and marks the run active; and the handler then
\* starts exactly one worker, at the stop of the capture.
C36_Launched ==
    {r \in Workers : wpc'[r] = "stop" /\ wpc[r] # "stop"}

C36_FlagsExclusive ==
    /\ ~(recording_active /\ processing)
    /\ lres # "rel_busy"
    /\ lpc \in {"disable", "launch"} => processing /\ ~recording_active

C36_EverySessionConsumedByOneRun ==
    /\ [] C36_FlagsExclusive
    /\ [][/\ (lpc = "on_release" /\ recording_active /\ lpc' # lpc) =>
                 /\ lpc' = "disable" /\ lres' = "rel_started"
                 /\ processing' /\ ~recording_active'
          /\ (lpc = "launch" /\ lpc' # lpc) =>
                 /\ Cardinality(C36_Launched) = 1
                 /\ worker' \in C36_Launched
          /\ lpc # "launch" => C36_Launched = {}]_vars

\* a session has been closed by its release and its run is stopping the
\* capture, which is still on
C36_Witness ==
    /\ lres = "rel_started" /\ lpc = "idle"
    /\ processing /\ ~recording_active /\ is_recording
    /\ \E r \in Workers : worker = r /\ wpc[r] = "stop"

\* ------------------------------------------------ fair scheduling
\* the threads of the application are scheduled fairly and every
\* collaborator call returns or raises: the listener thread goes on inside
\* the gate and the handlers, and each worker thread goes on inside its run;
\* the arrival of key events, the sound device, the main thread and the
\* clock are left free
WorkerStep(r) ==
    \/ ProcessStop(r)
    \/ ProcessStt(r)
    \/ ProcessLlm(r)
    \/ ProcessInsert(r)
    \/ ProcessExcept(r)
    \/ ProcessFinally(r)
    \/ ProcessEnableGate(r)

ListenerStep ==
    \/ HandlePress
    \/ HandleRelease
    \/ CoordinatorNext

Fairness ==
    /\ WF_vars(ListenerStep)
    /\ \A r \in Workers : WF_vars(WorkerStep(r))

\* the application after a start() that succeeded, before any stop(): the
\* state Spec reaches at the end of start() when both tasks succeed and the
\* stream opens
StartedInit ==
    /\ enabled = TRUE /\ is_pressed = FALSE
    /\ last_cb = "none" /\ gres = "none" /\ cb_raised = FALSE
    /\ lpc = "idle" /\ key = "none" /\ arrived_disabled = FALSE
    /\ processing = FALSE /\ recording_active = FALSE
    /\ last_pipeline_end = 0 /\ worker = 0
    /\ lres = "none"
    /\ is_recording = FALSE /\ frame_count = 0
    /\ wpc = [r \in Workers |-> "none"]
    /\ wexc = [r \in Workers |-> FALSE]
    /\ wres = [r \in Workers |-> "none"]
    /\ wenables = [r \in Workers |-> 0]
    /\ waudio = [r \in Workers |-> 0]
    /\ wtranscript = [r \in Workers |-> None]
    /\ wraw = [r \in Workers |-> <<>>]
    /\ wfmt = [r \in Workers |-> <<>>]
    /\ wllm = [r \in Workers |-> "none"]
    /\ wcalls = [r \in Workers |-> {}]
    /\ winserted = [r \in Workers |-> <<>>]
    /\ now = 0
    /\ mpc = "ready" /\ stt_task = "loaded" /\ llm_task = "warmed" /\ mjoin = 0
    /\ stream = "open" /\ listener_running = TRUE
    /\ media_calls = {}
    /\ skip_short = TRUE /\ llm_enabled = TRUE
    /\ NoFormatCall

FairNext ==
    \/ \E k \in Keys : DeliverKeyDown(k)
    \/ \E k \in Keys : DeliverKeyUp(k)
    \/ HandlePress
    \/ HandleRelease
    \/ CoordinatorNext
    \/ WorkerNext
    \/ StreamCallback
    \/ Tick

FairSpec == StartedInit /\ [][FairNext]_vars /\ Fairness

\* C37 (FairSpec): every run that has been launched reaches the end of its
\* cleanup, where the active-run flag is false and the gate is enabled; an
\* active-run flag that is set, and a gate that is disabled, do not stay so
\* for ever; and a press that reaches the coordinator with no run active and
\* the cooldown over opens a session, whose release starts a run.
C37_EveryRunReachesCleanup ==
    /\ \A r \in Workers :
           (wpc[r] \in RunningPcs) ~>
               (wpc[r] = "done" /\ ~processing /\ enabled)
    /\ processing ~> (~processing /\ enabled)
    /\ (~enabled) ~> enabled
    /\ (/\ lpc = "on_press" /\ ~processing
        /\ now >= last_pipeline_end + PIPELINE_COOLDOWN) ~> recording_active
    /\ (lpc = "on_release" /\ recording_active) ~>
           (\E r \in Workers : worker = r /\ wpc[r] = "stop")

\* a run that failed has ended with the flag cleared and the gate enabled
\* again
C37_Witness ==
    \E r \in Workers :
        /\ wpc[r] = "done" /\ wres[r] = "error" /\ wenables[r] = 1
        /\ ~processing /\ enabled

\* C38 (Spec): in a run whose transcript is not blank and that has called
\* the inserter, the text given to the inserter has a character that is
\* neither punctuation nor white space.
C38_InsertedTextIsNotBlank ==
    \A r \in Workers :
        (strip(wtranscript[r]) # <<>> /\ "insert" \in wcalls[r]) =>
            punct_sub(winserted[r]) # <<>>

\* C39 (Spec): a press that the gate has accepted and the coordinator has
\* rejected, for the cooldown or for an active run, starts no capture while
\* the key is held.  The gate stays marked pressed, so a further key-down of
\* the trigger is ignored as a repeat, also after the cooldown is over; no
\* session is opened, the recorder is not started and no run is launched;
\* and the key-up that ends the hold reaches the release handler, which
\* finds no session and starts no run.
C39_Rejected == lres \in {"press_cooldown", "press_busy"}

C39_RejectedHeld ==
    /\ C39_Rejected
    /\ is_pressed /\ last_cb = "press"
    /\ lpc \in {"idle", "h_down", "h_up"}

C39_RejectedPressStartsNothing ==
    /\ [] (C39_RejectedHeld => ~recording_active /\ ~is_recording)
    /\ [][/\ (/\ C39_RejectedHeld
              /\ lpc = "h_down" /\ key \in trigger_keys /\ lpc' # lpc) =>
                 /\ lpc' = "idle" /\ gres' = "down_repeat"
                 /\ UNCHANGED <<gateVars, last_cb, lres>>
          /\ C39_RejectedHeld =>
                 /\ ~recording_active' /\ ~is_recording'
                 /\ \A r \in Workers : wpc'[r] = "stop" => wpc[r] = "stop"
                 /\ lpc' \notin {"on_press", "rec_start", "disable", "launch"}
          /\ (/\ C39_RejectedHeld
              /\ lpc = "h_up" /\ key \in trigger_keys /\ lpc' # lpc) =>
                 lpc' = "on_release" /\ ~is_pressed'
          /\ (C39_Rejected /\ lpc = "on_release" /\ lpc' # lpc) =>
                 /\ lpc' = "idle" /\ lres' = "rel_nosession"
                 /\ UNCHANGED <<appVars, recVars, wpc, gateVars>>]_vars

\* the press was rejected inside the cooldown, the key is still held, the
\* cooldown is over and a repeated key-down has just been ignored
C39_Witness ==
    /\ lres = "press_cooldown" /\ C39_RejectedHeld
    /\ lpc = "idle" /\ gres = "down_repeat" /\ enabled
    /\ ~processing /\ now >= last_pipeline_end + PIPELINE_COOLDOWN

\* C40 (Spec): once stop() has stopped the hotkey listener, no key event is
\* delivered any more, whether the gate is enabled or not and also after a
\* worker that was in flight has re-enabled it: a listener thread that is
\* idle stays idle, so that from then on no session is opened and no run is
\* started.
C40_ListenerStopped ==
    mpc \in {"stop_worker", "stop_join", "stop_close", "stopped"}

C40_NoDelivery ==
    C40_ListenerStopped =>
        /\ ~listener_running
        /\ \A k \in Keys : /\ ~ENABLED DeliverKeyDown(k)
                            /\ ~ENABLED DeliverKeyUp(k)

C40_NoEventAfterStop ==
    /\ [] C40_NoDelivery
    /\ [][(C40_ListenerStopped /\ lpc = "idle") =>
              /\ lpc' = "idle"
              /\ UNCHANGED <<recording_active, lres, gateHist, is_pressed>>
              /\ ~processing => ~processing'
              /\ \A r \in Workers : wpc'[r] = "stop" => wpc[r] = "stop"
         ]_vars

\* stop() has returned; the worker it found alive has finished since its
\* launch and has re-enabled the gate, and the listener thread is idle
C40_Witness ==
    /\ mpc = "stopped" /\ lpc = "idle"
    /\ mjoin # 0 /\ wpc[mjoin] = "done" /\ wenables[mjoin] = 1
    /\ enabled /\ ~processing

====
